---- MODULE Spec2Model ----
(***************************************************************************)
(* Model of the rs6502 CPU engine: the micro-op pipeline of                *)
(* cpu/src/cpu.rs, the micro-ops and addressing-mode sequences of          *)
(* cpu/src/microcode.rs, the decode table of core/src/opcode.rs and the    *)
(* instruction bodies of src/instructions.rs.                              *)
(*                                                                         *)
(* Fixed-width arithmetic: u8 values are kept modulo 2^8 and u16 values    *)
(* modulo 2^16, i.e. `+` and `-` on registers wrap (overflow checks off).  *)
(* A panic (failed assertion, panic!) aborts the program: it is recorded   *)
(* in the field `failed` and no operation is possible afterwards.          *)
(***************************************************************************)
EXTENDS Integers, Sequences, FiniteSets, TLC

(* ----------------------------------------------------------------------- *)
(* Bounds of the model                                                     *)
(* ----------------------------------------------------------------------- *)

\* number of opcode fetches explored in one behaviour
MaxInstr == 2

\* number of calls of reset explored in one behaviour
MaxResets == 2

\* number of calls of step_cycle followed when a call of step_instruction is
\* compared with them (the longest instruction takes 11)
MaxCalls == 12

\* number of lines of the programs and of characters of the short texts the
\* assembler is given
MaxLines == 3
MaxText == 4

(* ----------------------------------------------------------------------- *)
(* Program constants                                                       *)
(* ----------------------------------------------------------------------- *)

SIZE == 4

RES_VECTOR == 65532

CARRY == 1

ZERO == 2

INTERRUPT == 4

DECIMAL == 8

BREAK == 16

OVERFLOW == 64

NEGATIVE == 128

\* Option::None of the pipeline handle
None == -1

(* ----------------------------------------------------------------------- *)
(* Bytes, words and bit operations                                         *)
(* ----------------------------------------------------------------------- *)

Byte == 0..255

Wrap8(n) == (n + 65536) % 256

Wrap16(n) == (n + 65536) % 65536

\* u16::from_le_bytes([lo, hi])
from_le_bytes(lo, hi) == lo + 256 * hi

get_lo_byte(w) == w % 256

get_hi_byte(w) == w \div 256

\* value as i8
AsI8(v) == IF v >= 128 THEN v - 256 ELSE v

Bit(v, i) == (v \div (2 ^ i)) % 2

Sum8(f) == f[0] + f[1] + f[2] + f[3] + f[4] + f[5] + f[6] + f[7]

BitAnd(a, b) == Sum8([i \in 0..7 |-> (2 ^ i) * Bit(a, i) * Bit(b, i)])

BitOr(a, b) ==
  Sum8([i \in 0..7 |-> (2 ^ i) * (IF Bit(a, i) + Bit(b, i) > 0 THEN 1 ELSE 0)])

BitXor(a, b) == Sum8([i \in 0..7 |-> (2 ^ i) * ((Bit(a, i) + Bit(b, i)) % 2)])

\* Register::safe_add: wrapping sum and carry
safe_add(a, b) == [v |-> (a + b) % 256, carry |-> a + b > 255]

(* ----------------------------------------------------------------------- *)
(* Status flags (bitset! StatusFlags)                                      *)
(* ----------------------------------------------------------------------- *)

\* get_<flag>
GetFlag(st, mask) == BitAnd(st, mask) # 0

\* with_<flag>(value)
WithFlag(st, mask, value) ==
  IF value THEN BitOr(st, mask) ELSE BitAnd(st, 255 - mask)

\* StatusFlags::set(mask): self.0 |= mask
StatusSet(st, mask) == BitOr(st, mask)

(* ----------------------------------------------------------------------- *)
(* struct Value(u8, StatusFlags) of instructions.rs                        *)
(* ----------------------------------------------------------------------- *)

Value(v, st) == [v |-> v, st |-> st]

Value_safe_add(val, rhs) ==
  Value((val.v + rhs) % 256, WithFlag(val.st, CARRY, val.v + rhs > 255))

Value_safe_sub(val, rhs) ==
  LET d == AsI8(val.v) - AsI8(rhs)
  IN  Value(Wrap8(d), WithFlag(val.st, OVERFLOW, d < -128 \/ d > 127))

Value_carrying_add_DropsCarryOut(val, rhs) ==
  LET carry == IF GetFlag(val.st, CARRY) THEN 1 ELSE 0
      a == (val.v + rhs) % 256
      b == val.v + rhs > 255
      c == (a + carry) % 256
  IN  Value(c, WithFlag(val.st, CARRY, b))

Value_carrying_add(val, rhs) ==
  LET carry == IF GetFlag(val.st, CARRY) THEN 1 ELSE 0
      a == (val.v + rhs) % 256
      b == val.v + rhs > 255
      c == (a + carry) % 256
      d == a + carry > 255
  IN  Value(c, WithFlag(val.st, CARRY, b \/ d))

Value_borrowing_sub_CarryIsBorrow(val, rhs) ==
  LET borrow == IF GetFlag(val.st, CARRY) THEN 1 ELSE 0
      a0 == AsI8(val.v) - AsI8(rhs)
      b == a0 < -128 \/ a0 > 127
      a == AsI8(Wrap8(a0))
      c0 == a - borrow
      d == c0 < -128 \/ c0 > 127
  IN  Value(Wrap8(c0), WithFlag(val.st, OVERFLOW, b \/ d))

Value_borrowing_sub(val, rhs) ==
  LET borrow == IF GetFlag(val.st, CARRY) THEN 0 ELSE 1
      a0 == AsI8(val.v) - AsI8(rhs)
      b == a0 < -128 \/ a0 > 127
      a == AsI8(Wrap8(a0))
      c0 == a - borrow
      d == c0 < -128 \/ c0 > 127
  IN  Value(Wrap8(c0), WithFlag(val.st, OVERFLOW, b \/ d))

update_v_flag(val) == Value(val.v, WithFlag(val.st, OVERFLOW, BitAnd(val.v, 128) # 0))

update_z_flag(val) == Value(val.v, WithFlag(val.st, ZERO, val.v = 0))

update_zn_flags(val) ==
  Value(val.v, WithFlag(WithFlag(val.st, ZERO, val.v = 0), NEGATIVE, AsI8(val.v) < 0))

update_zv_flags(val) ==
  Value(val.v, WithFlag(WithFlag(val.st, ZERO, val.v = 0), OVERFLOW, BitAnd(val.v, 128) # 0))

(* ----------------------------------------------------------------------- *)
(* struct Context: temp register and a pushdown of SIZE bytes.             *)
(* The sequence `stack` holds stack[ptr..SIZE]: its head is the top.       *)
(* ----------------------------------------------------------------------- *)

\* Context::new
NewContext == [temp |-> 0, stack |-> <<>>]

\* Context::size of the machine's context
Size(s) == Len(s.ctx.stack)

\* a panic: the program aborts with the given message
Panic(s, why) == IF s.failed = "none" THEN [s EXCEPT !.failed = why] ELSE s

Max(a, b) == IF a >= b THEN a ELSE b

\* Context::push (assert!(self.ptr > 0)); `peak` records the deepest stack
CtxPush(s, byte) ==
  IF s.failed # "none" THEN s
  ELSE IF Size(s) >= SIZE THEN Panic(s, "ctx push: stack full")
  ELSE [s EXCEPT !.ctx.stack = <<byte>> \o @,
                 !.peak = Max(@, Size(s) + 1)]

\* Context::peek(rel), defined when rel < size
CtxPeek(s, rel) == s.ctx.stack[rel + 1]

\* the context after n calls of Context::pop, defined when n <= size
CtxDrop(s, n) == [s EXCEPT !.ctx.stack = SubSeq(@, n + 1, Len(@))]

\* the assertion of Context::pop / Context::peek fails for n bytes
Underflow(s, n) == Size(s) < n

PopPanic(s) == Panic(s, "ctx pop: stack empty")

PeekPanic(s) == Panic(s, "ctx peek: out of range")

(* ----------------------------------------------------------------------- *)
(* trait Bus: the store behind the bus is the initial image `rom`          *)
(* overlaid with the bytes written so far (`mem`).                         *)
(* ----------------------------------------------------------------------- *)

\* the byte the initial image holds at address a: the program bytes at the
\* entry point, the reset vector, a table in page zero and NOPs elsewhere
Image(rom, a) ==
  IF a = RES_VECTOR THEN get_lo_byte(rom.entry)
  ELSE IF a = RES_VECTOR + 1 THEN get_hi_byte(rom.entry)
  ELSE IF a = rom.entry THEN rom.b0
  ELSE IF a = Wrap16(rom.entry + 1) THEN rom.b1
  ELSE IF a = Wrap16(rom.entry + 2) THEN rom.b2
  ELSE IF a < 256 THEN a
  ELSE 234

\* the byte currently stored at address a
MemAt(s, a) == IF a \in DOMAIN s.mem THEN s.mem[a] ELSE Image(s.rom, a)

\* Bus::read: the access is appended to the accesses of the current call
BusRead(s, a) ==
  [s EXCEPT !.bus = Append(@, [rw |-> "r", addr |-> a, val |-> MemAt(s, a)])]

\* Bus::write
BusWrite(s, a, v) ==
  [s EXCEPT !.mem = (a :> v) @@ @,
            !.bus = Append(@, [rw |-> "w", addr |-> a, val |-> v])]

(* ----------------------------------------------------------------------- *)
(* Instruction bodies (src/instructions.rs)                                *)
(* ----------------------------------------------------------------------- *)

BoolByte(b) == IF b THEN 1 ELSE 0

adc_impl(s) ==
  IF Underflow(s, 1) THEN PopPanic(s)
  ELSE LET value == CtxPeek(s, 0)
           r == update_zv_flags(Value_carrying_add(Value(s.acc, s.status), value))
       IN  [CtxDrop(s, 1) EXCEPT !.acc = r.v, !.status = r.st]

and_impl(s) ==
  IF Underflow(s, 1) THEN PopPanic(s)
  ELSE LET value == CtxPeek(s, 0)
           r == update_zv_flags(Value(BitAnd(s.acc, value), s.status))
       IN  [CtxDrop(s, 1) EXCEPT !.acc = r.v, !.status = r.st]

asl_impl(s) ==
  IF Underflow(s, 1) THEN PopPanic(s)
  ELSE LET value == CtxPeek(s, 0)
           carry == BitAnd(value, 128) # 0
           r == update_v_flag(update_zn_flags(
                  Value((value * 2) % 256, WithFlag(s.status, CARRY, carry))))
       IN  CtxPush([CtxDrop(s, 1) EXCEPT !.status = r.st], r.v)

bcc_impl(s) == CtxPush(s, BoolByte(~GetFlag(s.status, CARRY)))

bcs_impl(s) == CtxPush(s, BoolByte(GetFlag(s.status, CARRY)))

beq_impl(s) == CtxPush(s, BoolByte(GetFlag(s.status, ZERO)))

bit_impl(s) ==
  IF Underflow(s, 1) THEN PopPanic(s)
  ELSE LET value == CtxPeek(s, 0)
           b7 == BitAnd(value, 128) # 0
           b6 == BitAnd(value, 64) # 0
           r == update_z_flag(Value(BitAnd(s.acc, value),
                  WithFlag(WithFlag(s.status, NEGATIVE, b7), OVERFLOW, b6)))
       IN  CtxPush([CtxDrop(s, 1) EXCEPT !.status = r.st], r.v)

bmi_impl(s) == CtxPush(s, BoolByte(GetFlag(s.status, NEGATIVE)))

bne_impl(s) == CtxPush(s, BoolByte(~GetFlag(s.status, ZERO)))

bpl_impl(s) == CtxPush(s, BoolByte(~GetFlag(s.status, NEGATIVE)))

brk_impl(s) == s

bvc_impl(s) == CtxPush(s, BoolByte(~GetFlag(s.status, OVERFLOW)))

bvs_impl(s) == CtxPush(s, BoolByte(GetFlag(s.status, OVERFLOW)))

clc_impl(s) == [s EXCEPT !.status = WithFlag(@, CARRY, FALSE)]

cld_impl(s) == [s EXCEPT !.status = WithFlag(@, DECIMAL, FALSE)]

cli_impl(s) == [s EXCEPT !.status = WithFlag(@, INTERRUPT, FALSE)]

clv_impl(s) == [s EXCEPT !.status = WithFlag(@, OVERFLOW, FALSE)]

\* the shared body of cmp_impl, cpx_impl and cpy_impl on register value reg
Compare(s, reg) ==
  IF Underflow(s, 1) THEN PopPanic(s)
  ELSE LET value == CtxPeek(s, 0)
           r == update_zn_flags(Value_safe_sub(Value(reg, s.status), value))
       IN  [CtxDrop(s, 1) EXCEPT !.status = r.st]

cmp_impl(s) == Compare(s, s.acc)

cpx_impl(s) == Compare(s, s.x)

cpy_impl(s) == Compare(s, s.y)

\* safe_sub(1), update_zn_flags, then the V flag restored
Decrement(v, st) ==
  LET r == update_zn_flags(Value_safe_sub(Value(v, st), 1))
  IN  Value(r.v, WithFlag(r.st, OVERFLOW, GetFlag(st, OVERFLOW)))

\* safe_add(1), update_zn_flags, then the C flag restored
Increment(v, st) ==
  LET r == update_zn_flags(Value_safe_add(Value(v, st), 1))
  IN  Value(r.v, WithFlag(r.st, CARRY, GetFlag(st, CARRY)))

dec_impl(s) ==
  IF Underflow(s, 1) THEN PopPanic(s)
  ELSE LET r == Decrement(CtxPeek(s, 0), s.status)
       IN  CtxPush([CtxDrop(s, 1) EXCEPT !.status = r.st], r.v)

dex_impl(s) ==
  LET r == Decrement(s.x, s.status) IN [s EXCEPT !.x = r.v, !.status = r.st]

dey_impl(s) ==
  LET r == Decrement(s.y, s.status) IN [s EXCEPT !.y = r.v, !.status = r.st]

eor_impl(s) ==
  IF Underflow(s, 1) THEN PopPanic(s)
  ELSE LET value == CtxPeek(s, 0)
           r == update_zn_flags(Value(BitXor(s.acc, value), s.status))
       IN  [CtxDrop(s, 1) EXCEPT !.acc = r.v, !.status = r.st]

inc_impl(s) ==
  IF Underflow(s, 1) THEN PopPanic(s)
  ELSE LET r == Increment(CtxPeek(s, 0), s.status)
       IN  CtxPush([CtxDrop(s, 1) EXCEPT !.status = r.st], r.v)

inx_impl(s) ==
  LET r == Increment(s.x, s.status) IN [s EXCEPT !.x = r.v, !.status = r.st]

iny_impl(s) ==
  LET r == Increment(s.y, s.status) IN [s EXCEPT !.y = r.v, !.status = r.st]

jmp_impl(s) == s

jsr_impl(s) == s

lda_impl(s) ==
  IF Underflow(s, 1) THEN PopPanic(s)
  ELSE [CtxDrop(s, 1) EXCEPT !.acc = CtxPeek(s, 0)]

ldx_impl(s) ==
  IF Underflow(s, 1) THEN PopPanic(s)
  ELSE [CtxDrop(s, 1) EXCEPT !.x = CtxPeek(s, 0)]

ldy_impl(s) ==
  IF Underflow(s, 1) THEN PopPanic(s)
  ELSE [CtxDrop(s, 1) EXCEPT !.y = CtxPeek(s, 0)]

lsr_impl(s) ==
  IF Underflow(s, 1) THEN PopPanic(s)
  ELSE LET value == CtxPeek(s, 0)
           carry == BitAnd(value, 1) # 0
           r == update_z_flag(Value(value \div 2,
                  WithFlag(WithFlag(s.status, CARRY, carry), NEGATIVE, FALSE)))
       IN  CtxPush([CtxDrop(s, 1) EXCEPT !.status = r.st], r.v)

nop_impl(s) == s

ora_impl(s) ==
  IF Underflow(s, 1) THEN PopPanic(s)
  ELSE LET value == CtxPeek(s, 0)
           r == update_zn_flags(Value(BitOr(s.acc, value), s.status))
       IN  [CtxDrop(s, 1) EXCEPT !.acc = r.v, !.status = r.st]

pha_impl(s) == CtxPush(s, s.acc)

php_impl(s) == CtxPush(s, s.status)

pla_impl(s) ==
  IF Underflow(s, 1) THEN PopPanic(s)
  ELSE [CtxDrop(s, 1) EXCEPT !.acc = CtxPeek(s, 0)]

plp_impl(s) ==
  IF Underflow(s, 1) THEN PopPanic(s)
  ELSE [CtxDrop(s, 1) EXCEPT !.status = CtxPeek(s, 0)]

rol_impl(s) ==
  IF Underflow(s, 1) THEN PopPanic(s)
  ELSE LET value == CtxPeek(s, 0)
           carry == BitAnd(value, 128) # 0
           r == update_zn_flags(Value(((value * 2) % 256) + (value \div 128),
                  WithFlag(s.status, CARRY, carry)))
       IN  CtxPush([CtxDrop(s, 1) EXCEPT !.status = r.st], r.v)

ror_impl(s) ==
  IF Underflow(s, 1) THEN PopPanic(s)
  ELSE LET value == CtxPeek(s, 0)
           carry == BitAnd(value, 1) # 0
           r == update_zn_flags(Value((value \div 2) + (128 * (value % 2)),
                  WithFlag(s.status, CARRY, carry)))
       IN  CtxPush([CtxDrop(s, 1) EXCEPT !.status = r.st], r.v)

rti_impl(s) ==
  IF Underflow(s, 3) THEN PopPanic(s)
  ELSE LET pch == CtxPeek(s, 0)
           pcl == CtxPeek(s, 1)
           status == CtxPeek(s, 2)
       IN  CtxPush(CtxPush([CtxDrop(s, 3) EXCEPT !.status = status], pcl), pch)

rts_impl(s) == s

sbc_impl(s) ==
  IF Underflow(s, 1) THEN PopPanic(s)
  ELSE LET value == CtxPeek(s, 0)
           r == update_v_flag(update_zn_flags(
                  Value_borrowing_sub(Value(s.acc, s.status), value)))
       IN  [CtxDrop(s, 1) EXCEPT !.acc = r.v, !.status = r.st]

sec_impl(s) == [s EXCEPT !.status = WithFlag(@, CARRY, TRUE)]

sed_impl(s) == [s EXCEPT !.status = WithFlag(@, DECIMAL, TRUE)]

sei_impl(s) == [s EXCEPT !.status = WithFlag(@, INTERRUPT, TRUE)]

sta_impl(s) == CtxPush(s, s.acc)

stx_impl(s) == CtxPush(s, s.x)

sty_impl(s) == CtxPush(s, s.y)

tax_impl(s) == [s EXCEPT !.x = s.acc]

tay_impl(s) == [s EXCEPT !.y = s.acc]

tsx_impl(s) == [s EXCEPT !.x = s.sp]

txa_impl(s) == [s EXCEPT !.acc = s.sp]

txs_impl(s) == [s EXCEPT !.sp = s.x]

tya_impl(s) == [s EXCEPT !.sp = s.y]

\* first closure of ucode_reset: status.set(0), then I and B set
reset_status(s) ==
  [s EXCEPT !.status = WithFlag(WithFlag(StatusSet(@, 0), INTERRUPT, TRUE), BREAK, TRUE)]

\* second closure of ucode_reset: push RES_VECTOR, low byte first
reset_push_vector_lo(s) ==
  CtxPush(CtxPush(s, get_lo_byte(RES_VECTOR)), get_hi_byte(RES_VECTOR))

\* third closure of ucode_reset: push RES_VECTOR + 1, low byte first
reset_push_vector_hi(s) ==
  CtxPush(CtxPush(s, get_lo_byte(RES_VECTOR + 1)), get_hi_byte(RES_VECTOR + 1))

\* fourth closure of ucode_reset: pop hi, pop lo, load PC
reset_jump(s) ==
  IF Underflow(s, 2) THEN PopPanic(s)
  ELSE [CtxDrop(s, 2) EXCEPT !.pc = from_le_bytes(CtxPeek(s, 1), CtxPeek(s, 0))]

\* the call function(cpu, ctx) of the body or closure f carried by an Execute
Func(f, s) ==
  CASE f = "adc" -> adc_impl(s) [] f = "and" -> and_impl(s)
    [] f = "asl" -> asl_impl(s) [] f = "bcc" -> bcc_impl(s)
    [] f = "bcs" -> bcs_impl(s) [] f = "beq" -> beq_impl(s)
    [] f = "bit" -> bit_impl(s) [] f = "bmi" -> bmi_impl(s)
    [] f = "bne" -> bne_impl(s) [] f = "bpl" -> bpl_impl(s)
    [] f = "brk" -> brk_impl(s) [] f = "bvc" -> bvc_impl(s)
    [] f = "bvs" -> bvs_impl(s) [] f = "clc" -> clc_impl(s)
    [] f = "cld" -> cld_impl(s) [] f = "cli" -> cli_impl(s)
    [] f = "clv" -> clv_impl(s) [] f = "cmp" -> cmp_impl(s)
    [] f = "cpx" -> cpx_impl(s) [] f = "cpy" -> cpy_impl(s)
    [] f = "dec" -> dec_impl(s) [] f = "dex" -> dex_impl(s)
    [] f = "dey" -> dey_impl(s) [] f = "eor" -> eor_impl(s)
    [] f = "inc" -> inc_impl(s) [] f = "inx" -> inx_impl(s)
    [] f = "iny" -> iny_impl(s) [] f = "jmp" -> jmp_impl(s)
    [] f = "jsr" -> jsr_impl(s) [] f = "lda" -> lda_impl(s)
    [] f = "ldx" -> ldx_impl(s) [] f = "ldy" -> ldy_impl(s)
    [] f = "lsr" -> lsr_impl(s) [] f = "nop" -> nop_impl(s)
    [] f = "ora" -> ora_impl(s) [] f = "pha" -> pha_impl(s)
    [] f = "php" -> php_impl(s) [] f = "pla" -> pla_impl(s)
    [] f = "plp" -> plp_impl(s) [] f = "rol" -> rol_impl(s)
    [] f = "ror" -> ror_impl(s) [] f = "rti" -> rti_impl(s)
    [] f = "rts" -> rts_impl(s) [] f = "sbc" -> sbc_impl(s)
    [] f = "sec" -> sec_impl(s) [] f = "sed" -> sed_impl(s)
    [] f = "sei" -> sei_impl(s) [] f = "sta" -> sta_impl(s)
    [] f = "stx" -> stx_impl(s) [] f = "sty" -> sty_impl(s)
    [] f = "tax" -> tax_impl(s) [] f = "tay" -> tay_impl(s)
    [] f = "tsx" -> tsx_impl(s) [] f = "txa" -> txa_impl(s)
    [] f = "txs" -> txs_impl(s) [] f = "tya" -> tya_impl(s)
    [] f = "reset_status" -> reset_status(s)
    [] f = "reset_push_vector_lo" -> reset_push_vector_lo(s)
    [] f = "reset_push_vector_hi" -> reset_push_vector_hi(s)
    [] f = "reset_jump" -> reset_jump(s)

(* ----------------------------------------------------------------------- *)
(* Micro-ops (enum MicroOp, MicroOp::execute).  A micro-op maps the        *)
(* machine s to the machine after it and the cycles it reports.            *)
(* ----------------------------------------------------------------------- *)

\* a micro-op value: its variant k, the instruction body or closure f it
\* carries and the index register r the closure was instantiated with
Op(k) == [k |-> k, f |-> "", r |-> "", g |-> ""]

Execute(f) == [k |-> "Execute", f |-> f, r |-> "", g |-> ""]

Evaluate(f, r, g) == [k |-> "Evaluate", f |-> f, r |-> r, g |-> g]

\* the result of MicroOp::execute: machine and reported cycles
Ret(s, cyc) == [s |-> s, cyc |-> cyc]

Unimplemented(s) == Ret(Panic(s, "instruction unimplemented"), 0)

EmptyCycle(s) == Ret(s, 1)

EmptyNoCycle(s) == Ret(s, 0)

LoadIncrPC(s) ==
  LET pc == s.pc
      value == MemAt(s, pc)
  IN  Ret([CtxPush(BusRead(s, pc), value) EXCEPT !.pc = Wrap16(pc + 1)], 1)

StoreDecrSP(s) ==
  LET sp == s.sp
      address == from_le_bytes(0, sp)
  IN  IF Underflow(s, 1) THEN Ret(PopPanic(s), 0)
      ELSE Ret([BusWrite(CtxDrop(s, 1), address, CtxPeek(s, 0))
                  EXCEPT !.sp = Wrap8(sp - 1)], 1)

IncrLoadSP(s) ==
  LET sp == Wrap8(s.sp + 1)
      address == from_le_bytes(0, sp)
      s1 == [s EXCEPT !.sp = sp]
  IN  Ret(CtxPush(BusRead(s1, address), MemAt(s1, address)), 1)

PushAcc(s) == Ret(CtxPush(s, s.acc), 0)

PushZero(s) == Ret(CtxPush(s, 0), 0)

PushPCL(s) == Ret(CtxPush(s, get_lo_byte(s.pc)), 0)

PushPCH(s) == Ret(CtxPush(s, get_hi_byte(s.pc)), 0)

PopJump(s) ==
  IF Underflow(s, 2) THEN Ret(PopPanic(s), 0)
  ELSE LET hi == CtxPeek(s, 0)
           lo == CtxPeek(s, 1)
       IN  Ret([CtxDrop(s, 2) EXCEPT !.pc = from_le_bytes(lo, hi)], 0)

PopLoadAddress_Peeks(s) ==
  IF Underflow(s, 2) THEN Ret(PopPanic(s), 0)
  ELSE LET address == from_le_bytes(CtxPeek(s, 1), CtxPeek(s, 0))
       IN  Ret(CtxPush(BusRead(s, address), MemAt(s, address)), 1)

PopLoadAddress_NoCycle(s) ==
  IF Underflow(s, 2) THEN Ret(PopPanic(s), 0)
  ELSE LET address == from_le_bytes(CtxPeek(s, 1), CtxPeek(s, 0))
           s1 == CtxDrop(s, 2)
       IN  Ret(CtxPush(BusRead(s1, address), MemAt(s1, address)), 0)

PopLoadAddress(s) ==
  IF Underflow(s, 2) THEN Ret(PopPanic(s), 0)
  ELSE LET hi == CtxPeek(s, 0)
           lo == CtxPeek(s, 1)
           address == from_le_bytes(lo, hi)
           s1 == CtxDrop(s, 2)
       IN  Ret(CtxPush(BusRead(s1, address), MemAt(s1, address)), 1)

PeekLoadAddress(s) ==
  IF Underflow(s, 2) THEN Ret(PeekPanic(s), 0)
  ELSE LET hi == CtxPeek(s, 0)
           lo == CtxPeek(s, 1)
           address == from_le_bytes(lo, hi)
       IN  Ret(CtxPush(BusRead(s, address), MemAt(s, address)), 1)

PopStoreAddress(s) ==
  IF Underflow(s, 3) THEN Ret(PopPanic(s), 0)
  ELSE LET value == CtxPeek(s, 0)
           hi == CtxPeek(s, 1)
           lo == CtxPeek(s, 2)
       IN  Ret(BusWrite(CtxDrop(s, 3), from_le_bytes(lo, hi), value), 1)

PopTemp(s) ==
  IF Underflow(s, 1) THEN Ret(PopPanic(s), 0)
  ELSE Ret([CtxDrop(s, 1) EXCEPT !.ctx.temp = CtxPeek(s, 0)], 0)

PushTemp(s) == Ret(CtxPush(s, s.ctx.temp), 0)

IncrTemp(s) == Ret([s EXCEPT !.ctx.temp = Wrap8(@ + 1)], 0)

AddTempX(s) == Ret([s EXCEPT !.ctx.temp = safe_add(@, s.x).v], 0)

\* execute of every variant but Execute and Evaluate
ExecBasic(op, s) ==
  CASE op.k = "Unimplemented" -> Unimplemented(s)
    [] op.k = "EmptyCycle" -> EmptyCycle(s)
    [] op.k = "EmptyNoCycle" -> EmptyNoCycle(s)
    [] op.k = "LoadIncrPC" -> LoadIncrPC(s)
    [] op.k = "StoreDecrSP" -> StoreDecrSP(s)
    [] op.k = "IncrLoadSP" -> IncrLoadSP(s)
    [] op.k = "PushAcc" -> PushAcc(s)
    [] op.k = "PushZero" -> PushZero(s)
    [] op.k = "PushPCL" -> PushPCL(s)
    [] op.k = "PushPCH" -> PushPCH(s)
    [] op.k = "PopJump" -> PopJump(s)
    [] op.k = "PopLoadAddress" -> PopLoadAddress(s)
    [] op.k = "PeekLoadAddress" -> PeekLoadAddress(s)
    [] op.k = "PopStoreAddress" -> PopStoreAddress(s)
    [] op.k = "PopTemp" -> PopTemp(s)
    [] op.k = "PushTemp" -> PushTemp(s)
    [] op.k = "IncrTemp" -> IncrTemp(s)
    [] op.k = "AddTempX" -> AddTempX(s)

(* ----------------------------------------------------------------------- *)
(* The closures of the Evaluate micro-ops: each maps the machine to the    *)
(* machine after the closure and the micro-op it returns.                  *)
(* ----------------------------------------------------------------------- *)

Then(s, k) == [s |-> s, op |-> Op(k)]

\* cpu.registers.$register.get()
Reg(s, r) == IF r = "x" THEN s.x ELSE s.y

\* first closure of load_indirect_y
load_indirect_y_eval1(s) ==
  IF Underflow(s, 2) THEN Then(PopPanic(s), "EmptyNoCycle")
  ELSE LET bal == CtxPeek(s, 0)
           bah == CtxPeek(s, 1)
           lo == safe_add(s.y, bal).v
           carry == safe_add(s.y, bal).carry
           hi == Wrap8(bah + BoolByte(carry))
           s1 == CtxDrop(s, 2)
       IN  IF hi # bah THEN Then(CtxPush(CtxPush(s1, lo), hi), "EmptyCycle")
           ELSE Then(s1, "PopLoadAddress")

\* second closure of load_indirect_y
load_indirect_y_eval2(s) ==
  IF Size(s) = 2 THEN Then(s, "PopLoadAddress") ELSE Then(s, "EmptyNoCycle")

load_absolute_indexed_eval1_NoPause(s, r) ==
  IF Underflow(s, 2) THEN Then(PopPanic(s), "EmptyNoCycle")
  ELSE LET bah == CtxPeek(s, 0)
           bal == CtxPeek(s, 1)
           lo == safe_add(Reg(s, r), bal).v
           carry == safe_add(Reg(s, r), bal).carry
           hi == Wrap8(bah + BoolByte(carry))
           s1 == CtxDrop(s, 2)
       IN  IF hi # bah THEN Then(CtxPush(CtxPush(s1, lo), hi), "EmptyNoCycle")
           ELSE Then(s1, "PopLoadAddress")

\* first closure of load_absolute_indexed
load_absolute_indexed_eval1(s, r) ==
  IF Underflow(s, 2) THEN Then(PopPanic(s), "EmptyNoCycle")
  ELSE LET bah == CtxPeek(s, 0)
           bal == CtxPeek(s, 1)
           lo == safe_add(Reg(s, r), bal).v
           carry == safe_add(Reg(s, r), bal).carry
           hi == Wrap8(bah + BoolByte(carry))
           s1 == CtxDrop(s, 2)
       IN  IF hi # bah THEN Then(CtxPush(CtxPush(s1, lo), hi), "EmptyCycle")
           ELSE Then(s1, "PopLoadAddress")

\* second closure of load_absolute_indexed
load_absolute_indexed_eval2(s) ==
  IF Size(s) = 2 THEN Then(s, "PopLoadAddress") ELSE Then(s, "EmptyNoCycle")

load_zero_page_indexed_eval_Carries(s, r) ==
  IF Underflow(s, 1) THEN Then(PopPanic(s), "EmptyNoCycle")
  ELSE LET bal == CtxPeek(s, 0)
           lo == safe_add(Reg(s, r), bal).v
           hi == BoolByte(safe_add(Reg(s, r), bal).carry)
       IN  Then(CtxPush(CtxPush(CtxDrop(s, 1), lo), hi), "PopLoadAddress")

\* closure of load_zero_page_indexed
load_zero_page_indexed_eval(s, r) ==
  IF Underflow(s, 1) THEN Then(PopPanic(s), "EmptyNoCycle")
  ELSE LET bal == CtxPeek(s, 0)
           lo == safe_add(Reg(s, r), bal).v
       IN  Then(CtxPush(CtxPush(CtxDrop(s, 1), lo), 0), "PopLoadAddress")

\* closure of store_indirect_y
store_indirect_y_eval(s) ==
  IF Underflow(s, 2) THEN Then(PopPanic(s), "EmptyNoCycle")
  ELSE LET bal == CtxPeek(s, 0)
           bah == CtxPeek(s, 1)
           lo == safe_add(s.y, bal).v
           carry == safe_add(s.y, bal).carry
           hi == Wrap8(bah + BoolByte(carry))
       IN  Then(CtxPush(CtxPush(CtxDrop(s, 2), lo), hi), "EmptyCycle")

\* closure of store_absolute_indexed
store_absolute_indexed_eval(s, r) ==
  IF Underflow(s, 2) THEN Then(PopPanic(s), "EmptyNoCycle")
  ELSE LET bah == CtxPeek(s, 0)
           bal == CtxPeek(s, 1)
           lo == safe_add(Reg(s, r), bal).v
           carry == safe_add(Reg(s, r), bal).carry
           hi == Wrap8(bah + BoolByte(carry))
       IN  Then(CtxPush(CtxPush(CtxDrop(s, 2), lo), hi), "EmptyCycle")

\* closure of store_zero_page_indexed: it calls the instruction body g
store_zero_page_indexed_eval(s, r, g) ==
  IF Underflow(s, 1) THEN Then(PopPanic(s), "EmptyNoCycle")
  ELSE LET bal == CtxPeek(s, 0)
           lo == safe_add(Reg(s, r), bal).v
       IN  Then(Func(g, CtxPush(CtxPush(CtxDrop(s, 1), lo), 0)), "PopStoreAddress")

\* closure of load_store_absolute_x
load_store_absolute_x_eval(s) ==
  IF Underflow(s, 2) THEN Then(PopPanic(s), "EmptyNoCycle")
  ELSE LET bah == CtxPeek(s, 0)
           bal == CtxPeek(s, 1)
           lo == safe_add(s.x, bal).v
           carry == safe_add(s.x, bal).carry
           hi == Wrap8(bah + BoolByte(carry))
       IN  Then(CtxPush(CtxPush(CtxDrop(s, 2), lo), hi), "PeekLoadAddress")

jump_indirect_eval_NextPage(s) ==
  IF Underflow(s, 3) THEN Then(PopPanic(s), "EmptyNoCycle")
  ELSE LET lo == CtxPeek(s, 0)
           iah == CtxPeek(s, 1)
           ial == CtxPeek(s, 2)
       IN  Then(CtxPush(CtxPush(CtxPush(CtxDrop(s, 3), lo), Wrap8(ial + 1)),
                        Wrap8(iah + BoolByte(ial = 255))),
                "PopLoadAddress")

\* closure of jump_indirect
jump_indirect_eval(s) ==
  IF Underflow(s, 3) THEN Then(PopPanic(s), "EmptyNoCycle")
  ELSE LET lo == CtxPeek(s, 0)
           iah == CtxPeek(s, 1)
           ial == CtxPeek(s, 2)
       IN  Then(CtxPush(CtxPush(CtxPush(CtxDrop(s, 3), lo), Wrap8(ial + 1)), iah),
                "PopLoadAddress")

\* first closure of branch_relative
branch_relative_eval1(s) ==
  IF Underflow(s, 2) THEN Then(PopPanic(s), "EmptyNoCycle")
  ELSE LET result == CtxPeek(s, 0)
           offset == AsI8(CtxPeek(s, 1))
           s1 == [CtxDrop(s, 2) EXCEPT !.ctx.temp = result]
           pcl == get_lo_byte(s.pc)
           pch == get_hi_byte(s.pc)
           lo == Wrap8(pcl + offset)
           overflow == IF offset >= 0 THEN pcl + offset > 255 ELSE pcl + offset < 0
       IN  IF result = 0 THEN Then(s1, "EmptyNoCycle")
           ELSE IF overflow
             THEN Then(CtxPush(CtxPush(s1, lo), Wrap8(pch + 1)), "EmptyCycle")
             ELSE Then(CtxPush(CtxPush(s1, lo), pch), "PopJump")

\* second closure of branch_relative
branch_relative_eval2(s) ==
  IF s.ctx.temp = 0 THEN Then(s, "EmptyNoCycle")
  ELSE IF Size(s) = 0 THEN Then(s, "EmptyNoCycle")
  ELSE Then(s, "PopJump")

\* the call function(cpu, ctx) of the closure carried by an Evaluate
Eval(op, s) ==
  CASE op.f = "load_indirect_y_1" -> load_indirect_y_eval1(s)
    [] op.f = "load_indirect_y_2" -> load_indirect_y_eval2(s)
    [] op.f = "load_absolute_indexed_1" -> load_absolute_indexed_eval1(s, op.r)
    [] op.f = "load_absolute_indexed_2" -> load_absolute_indexed_eval2(s)
    [] op.f = "load_zero_page_indexed" -> load_zero_page_indexed_eval(s, op.r)
    [] op.f = "store_indirect_y" -> store_indirect_y_eval(s)
    [] op.f = "store_absolute_indexed" -> store_absolute_indexed_eval(s, op.r)
    [] op.f = "store_zero_page_indexed" -> store_zero_page_indexed_eval(s, op.r, op.g)
    [] op.f = "load_store_absolute_x" -> load_store_absolute_x_eval(s)
    [] op.f = "jump_indirect" -> jump_indirect_eval(s)
    [] op.f = "branch_relative_1" -> branch_relative_eval1(s)
    [] op.f = "branch_relative_2" -> branch_relative_eval2(s)

\* the tail of the Evaluate arm: execute of the micro-op the closure returned
EvaluateReturned(e) ==
  IF e.s.failed # "none" THEN Ret(e.s, 0) ELSE ExecBasic(e.op, e.s)

\* MicroOp::execute
MicroOpExecute(op, s) ==
  IF op.k = "Execute" THEN Ret(Func(op.f, s), 0)
  ELSE IF op.k = "Evaluate" THEN EvaluateReturned(Eval(op, s))
  ELSE ExecBasic(op, s)

(* ----------------------------------------------------------------------- *)
(* Micro-op sequences of the addressing modes (macros of microcode.rs)     *)
(* ----------------------------------------------------------------------- *)

ucode_reset ==
  << Execute("reset_status"), Execute("reset_push_vector_lo"), Op("PopLoadAddress"),
     Execute("reset_push_vector_hi"), Op("PopLoadAddress"), Execute("reset_jump") >>

single_byte_implied(f) == << Op("EmptyCycle"), Execute(f) >>

single_byte_accumulator(f) == << Op("EmptyCycle"), Op("PushAcc"), Execute(f) >>

load_immediate(f) == << Op("LoadIncrPC"), Execute(f) >>

load_zero_page(f) ==
  << Op("LoadIncrPC"), Op("PushZero"), Op("PopLoadAddress"), Execute(f) >>

load_absolute(f) ==
  << Op("LoadIncrPC"), Op("LoadIncrPC"), Op("PopLoadAddress"), Execute(f) >>

load_indirect_x(f) ==
  << Op("LoadIncrPC"), Op("PopTemp"), Op("EmptyCycle"),
     Op("AddTempX"), Op("PushTemp"), Op("PushZero"), Op("PopLoadAddress"),
     Op("IncrTemp"), Op("PushTemp"), Op("PushZero"), Op("PopLoadAddress"),
     Op("PopLoadAddress"), Execute(f) >>

load_indirect_y(f) ==
  << Op("LoadIncrPC"), Op("PopTemp"),
     Op("PushTemp"), Op("PushZero"), Op("PopLoadAddress"),
     Op("IncrTemp"), Op("PushTemp"), Op("PushZero"), Op("PopLoadAddress"),
     Evaluate("load_indirect_y_1", "", ""), Evaluate("load_indirect_y_2", "", ""),
     Execute(f) >>

load_absolute_indexed(f, r) ==
  << Op("LoadIncrPC"), Op("LoadIncrPC"),
     Evaluate("load_absolute_indexed_1", r, ""),
     Evaluate("load_absolute_indexed_2", "", ""),
     Execute(f) >>

load_zero_page_indexed(f, r) ==
  << Op("LoadIncrPC"), Op("EmptyCycle"),
     Evaluate("load_zero_page_indexed", r, ""), Execute(f) >>

store_zero_page(f) ==
  << Op("LoadIncrPC"), Op("PushZero"), Execute(f), Op("PopStoreAddress") >>

store_absolute(f) ==
  << Op("LoadIncrPC"), Op("LoadIncrPC"), Execute(f), Op("PopStoreAddress") >>

store_indirect_x(f) ==
  << Op("LoadIncrPC"), Op("PopTemp"), Op("EmptyCycle"),
     Op("AddTempX"), Op("PushTemp"), Op("PushZero"), Op("PopLoadAddress"),
     Op("IncrTemp"), Op("PushTemp"), Op("PushZero"), Op("PopLoadAddress"),
     Execute(f), Op("PopStoreAddress") >>

store_indirect_y(f) ==
  << Op("LoadIncrPC"), Op("PopTemp"),
     Op("PushTemp"), Op("PushZero"), Op("PopLoadAddress"),
     Op("IncrTemp"), Op("PushTemp"), Op("PushZero"), Op("PopLoadAddress"),
     Evaluate("store_indirect_y", "", ""),
     Execute(f), Op("PopStoreAddress") >>

store_absolute_indexed(f, r) ==
  << Op("LoadIncrPC"), Op("LoadIncrPC"),
     Evaluate("store_absolute_indexed", r, ""),
     Execute(f), Op("PopStoreAddress") >>

store_zero_page_indexed(f, r) ==
  << Op("LoadIncrPC"), Op("EmptyCycle"),
     Evaluate("store_zero_page_indexed", r, f) >>

load_store_zero_page(f) ==
  << Op("LoadIncrPC"), Op("PushTemp"),
     Op("PopTemp"), Op("PushZero"), Op("PeekLoadAddress"),
     Execute(f), Op("PopStoreAddress") >>

load_store_absolute(f) ==
  << Op("LoadIncrPC"), Op("LoadIncrPC"), Op("PeekLoadAddress"),
     Execute(f), Op("PopStoreAddress") >>

load_store_zero_page_x(f) ==
  << Op("LoadIncrPC"), Op("EmptyCycle"), Op("PopTemp"), Op("AddTempX"),
     Op("PushTemp"), Op("PushZero"), Op("EmptyCycle"), Op("PeekLoadAddress"),
     Execute(f), Op("PopStoreAddress") >>

load_store_absolute_x(f) ==
  << Op("LoadIncrPC"), Op("LoadIncrPC"), Op("EmptyCycle"),
     Evaluate("load_store_absolute_x", "", ""),
     Op("EmptyCycle"), Op("PopStoreAddress"),
     Op("PopTemp"), Op("AddTempX"), Op("PushTemp"), Op("PushZero"),
     Op("EmptyCycle"), Op("PeekLoadAddress"), Execute(f), Op("PopLoadAddress") >>

push_implied(f) == << Op("EmptyCycle"), Execute(f), Op("StoreDecrSP") >>

pull_implied(f) ==
  << Op("EmptyCycle"), Op("EmptyCycle"), Op("IncrLoadSP"), Execute(f) >>

break_implied(f) == << Op("Unimplemented") >>

jump_to_subroutine_absolute(f) ==
  << Op("LoadIncrPC"), Op("EmptyCycle"), Op("PushPCH"), Op("StoreDecrSP"),
     Op("PushPCL"), Op("StoreDecrSP"), Op("LoadIncrPC"), Execute(f), Op("PopJump") >>

return_from_subroutine_implied(f) ==
  << Op("EmptyCycle"), Op("EmptyCycle"), Op("IncrLoadSP"), Op("PopTemp"),
     Op("IncrTemp"), Op("PushTemp"), Op("IncrLoadSP"), Execute(f),
     Op("EmptyCycle"), Op("PopJump") >>

return_from_interrupt_implied(f) ==
  << Op("EmptyCycle"), Op("EmptyCycle"), Op("IncrLoadSP"), Op("IncrLoadSP"),
     Op("IncrLoadSP"), Execute(f), Op("PopJump") >>

jump_absolute(f) ==
  << Op("LoadIncrPC"), Op("LoadIncrPC"), Execute(f), Op("PopJump") >>

jump_indirect(f) ==
  << Op("LoadIncrPC"), Op("LoadIncrPC"), Op("PeekLoadAddress"),
     Evaluate("jump_indirect", "", ""), Execute(f), Op("PopJump") >>

branch_relative(f) ==
  << Op("LoadIncrPC"), Execute(f),
     Evaluate("branch_relative_1", "", ""), Evaluate("branch_relative_2", "", "") >>

(* ----------------------------------------------------------------------- *)
(* The decode table (core/src/opcode.rs)                                   *)
(* ----------------------------------------------------------------------- *)

\* opcode!(value, name, mode, bytes, cycles, ucode!(func[, register]))
Entry(mnemonic, mode, bytes, cycles, ucode, func, reg) ==
  [mnemonic |-> mnemonic, mode |-> mode, bytes |-> bytes, cycles |-> cycles,
   ucode |-> ucode, func |-> func, reg |-> reg]

\* opcode!(value): an entry whose ucode is None
Unmapped == Entry("", "Implied", 0, 0, "none", "", "")

\* OPCODES[v] is element v + 1 of this tuple
OPCODES ==
  <<
  (* 00 *) Entry("BRK", "Implied", 1, 7, "break_implied", "brk", ""),
  (* 01 *) Entry("ORA", "IndirectX", 2, 5, "load_indirect_x", "ora", ""),
  (* 02 *) Unmapped,
  (* 03 *) Unmapped,
  (* 04 *) Unmapped,
  (* 05 *) Entry("ORA", "ZeroPage", 2, 3, "load_zero_page", "ora", ""),
  (* 06 *) Entry("ASL", "ZeroPage", 2, 5, "load_store_zero_page", "asl", ""),
  (* 07 *) Unmapped,
  (* 08 *) Entry("PHP", "Implied", 1, 3, "push_implied", "php", ""),
  (* 09 *) Entry("ORA", "Immediate", 2, 2, "load_immediate", "ora", ""),
  (* 0A *) Entry("ASL", "Accumulator", 1, 2, "single_byte_accumulator", "asl", ""),
  (* 0B *) Unmapped,
  (* 0C *) Unmapped,
  (* 0D *) Entry("ORA", "Absolute", 3, 4, "load_zero_page", "ora", ""),
  (* 0E *) Entry("ASL", "Absolute", 3, 6, "load_store_absolute", "asl", ""),
  (* 0F *) Unmapped,
  (* 10 *) Entry("BPL", "Relative", 2, 2, "branch_relative", "bpl", ""),
  (* 11 *) Entry("ORA", "IndirectY", 2, 5, "load_indirect_y", "ora", ""),
  (* 12 *) Unmapped,
  (* 13 *) Unmapped,
  (* 14 *) Unmapped,
  (* 15 *) Entry("ORA", "ZeroPageX", 2, 4, "load_zero_page_indexed", "ora", "x"),
  (* 16 *) Entry("ASL", "ZeroPageX", 2, 6, "load_store_zero_page_x", "asl", ""),
  (* 17 *) Unmapped,
  (* 18 *) Entry("CLC", "Implied", 1, 2, "single_byte_implied", "clc", ""),
  (* 19 *) Entry("ORA", "AbsoluteY", 3, 4, "load_absolute_indexed", "ora", "y"),
  (* 1A *) Unmapped,
  (* 1B *) Unmapped,
  (* 1C *) Unmapped,
  (* 1D *) Entry("ORA", "AbsoluteX", 3, 4, "load_absolute_indexed", "ora", "x"),
  (* 1E *) Entry("ASL", "AbsoluteX", 3, 7, "load_store_absolute_x", "asl", ""),
  (* 1F *) Unmapped,
  (* 20 *) Entry("JSR", "Absolute", 3, 6, "jump_to_subroutine_absolute", "jsr", ""),
  (* 21 *) Entry("AND", "IndirectX", 2, 6, "load_indirect_x", "and", ""),
  (* 22 *) Unmapped,
  (* 23 *) Unmapped,
  (* 24 *) Entry("BIT", "ZeroPage", 2, 3, "load_zero_page", "bit", ""),
  (* 25 *) Entry("AND", "ZeroPage", 2, 3, "load_zero_page", "and", ""),
  (* 26 *) Entry("ROL", "ZeroPage", 2, 5, "load_zero_page", "rol", ""),
  (* 27 *) Unmapped,
  (* 28 *) Entry("PLP", "Implied", 1, 4, "pull_implied", "plp", ""),
  (* 29 *) Entry("AND", "Immediate", 2, 2, "load_immediate", "and", ""),
  (* 2A *) Entry("ROL", "Accumulator", 1, 2, "single_byte_accumulator", "rol", ""),
  (* 2B *) Unmapped,
  (* 2C *) Entry("BIT", "Absolute", 3, 4, "load_absolute", "bit", ""),
  (* 2D *) Entry("AND", "Absolute", 3, 4, "load_absolute", "and", ""),
  (* 2E *) Entry("ROL", "Absolute", 3, 6, "load_store_absolute", "rol", ""),
  (* 2F *) Unmapped,
  (* 30 *) Entry("BMI", "Relative", 2, 2, "branch_relative", "bmi", ""),
  (* 31 *) Entry("AND", "IndirectY", 2, 5, "load_indirect_y", "and", ""),
  (* 32 *) Unmapped,
  (* 33 *) Unmapped,
  (* 34 *) Unmapped,
  (* 35 *) Entry("AND", "ZeroPageX", 2, 4, "load_zero_page_indexed", "and", "x"),
  (* 36 *) Entry("ROL", "ZeroPageX", 2, 6, "load_store_zero_page_x", "rol", ""),
  (* 37 *) Unmapped,
  (* 38 *) Entry("SEC", "Implied", 1, 2, "single_byte_implied", "sec", ""),
  (* 39 *) Entry("AND", "AbsoluteY", 3, 4, "load_absolute_indexed", "and", "y"),
  (* 3A *) Unmapped,
  (* 3B *) Unmapped,
  (* 3C *) Unmapped,
  (* 3D *) Entry("AND", "AbsoluteX", 3, 4, "load_absolute_indexed", "and", "x"),
  (* 3E *) Entry("ROL", "AbsoluteX", 3, 7, "load_store_absolute_x", "rol", ""),
  (* 3F *) Unmapped,
  (* 40 *) Entry("RTI", "Implied", 1, 6, "return_from_interrupt_implied", "rti", ""),
  (* 41 *) Entry("EOR", "IndirectX", 2, 6, "load_indirect_x", "eor", ""),
  (* 42 *) Unmapped,
  (* 43 *) Unmapped,
  (* 44 *) Unmapped,
  (* 45 *) Entry("EOR", "ZeroPage", 2, 3, "load_zero_page", "eor", ""),
  (* 46 *) Entry("LSR", "ZeroPage", 2, 5, "load_store_zero_page", "lsr", ""),
  (* 47 *) Unmapped,
  (* 48 *) Entry("PHA", "Implied", 1, 3, "push_implied", "pha", ""),
  (* 49 *) Entry("EOR", "Immediate", 2, 2, "load_immediate", "eor", ""),
  (* 4A *) Entry("LSR", "Accumulator", 1, 2, "single_byte_accumulator", "lsr", ""),
  (* 4B *) Unmapped,
  (* 4C *) Entry("JMP", "Absolute", 3, 3, "jump_absolute", "jmp", ""),
  (* 4D *) Entry("EOR", "Absolute", 3, 4, "load_absolute", "eor", ""),
  (* 4E *) Entry("LSR", "Absolute", 3, 6, "load_store_absolute", "lsr", ""),
  (* 4F *) Unmapped,
  (* 50 *) Entry("BVC", "Relative", 2, 2, "branch_relative", "bvc", ""),
  (* 51 *) Entry("EOR", "IndirectY", 2, 5, "load_indirect_y", "eor", ""),
  (* 52 *) Unmapped,
  (* 53 *) Unmapped,
  (* 54 *) Unmapped,
  (* 55 *) Entry("EOR", "ZeroPageX", 2, 4, "load_zero_page_indexed", "eor", "x"),
  (* 56 *) Entry("LSR", "ZeroPageX", 2, 6, "load_store_zero_page_x", "lsr", ""),
  (* 57 *) Unmapped,
  (* 58 *) Entry("CLI", "Implied", 1, 2, "single_byte_implied", "cli", ""),
  (* 59 *) Entry("EOR", "AbsoluteY", 3, 4, "load_absolute_indexed", "eor", "y"),
  (* 5A *) Unmapped,
  (* 5B *) Unmapped,
  (* 5C *) Unmapped,
  (* 5D *) Entry("EOR", "AbsoluteX", 3, 4, "load_absolute_indexed", "eor", "x"),
  (* 5E *) Entry("LSR", "AbsoluteX", 3, 7, "load_store_absolute_x", "lsr", ""),
  (* 5F *) Unmapped,
  (* 60 *) Entry("RTS", "Implied", 1, 6, "return_from_subroutine_implied", "rts", ""),
  (* 61 *) Entry("ADC", "IndirectX", 2, 6, "load_indirect_x", "adc", ""),
  (* 62 *) Unmapped,
  (* 63 *) Unmapped,
  (* 64 *) Unmapped,
  (* 65 *) Entry("ADC", "ZeroPage", 2, 3, "load_zero_page", "adc", ""),
  (* 66 *) Entry("ROR", "ZeroPage", 2, 5, "load_store_zero_page", "ror", ""),
  (* 67 *) Unmapped,
  (* 68 *) Entry("PLA", "Implied", 1, 4, "pull_implied", "pla", ""),
  (* 69 *) Entry("ADC", "Immediate", 2, 2, "load_immediate", "adc", ""),
  (* 6A *) Entry("ROR", "Accumulator", 1, 2, "single_byte_accumulator", "ror", ""),
  (* 6B *) Unmapped,
  (* 6C *) Entry("JMP", "Indirect", 3, 5, "jump_indirect", "jmp", ""),
  (* 6D *) Entry("ADC", "Absolute", 3, 4, "load_absolute", "adc", ""),
  (* 6E *) Entry("ROR", "Absolute", 3, 6, "load_store_absolute", "ror", ""),
  (* 6F *) Unmapped,
  (* 70 *) Entry("BVS", "Relative", 2, 2, "branch_relative", "bvs", ""),
  (* 71 *) Entry("ADC", "IndirectY", 2, 5, "load_indirect_y", "adc", ""),
  (* 72 *) Unmapped,
  (* 73 *) Unmapped,
  (* 74 *) Unmapped,
  (* 75 *) Entry("ADC", "ZeroPageX", 2, 4, "load_zero_page_indexed", "adc", "x"),
  (* 76 *) Entry("ROR", "ZeroPageX", 2, 6, "load_store_zero_page_x", "ror", ""),
  (* 77 *) Unmapped,
  (* 78 *) Entry("SEI", "Implied", 1, 2, "single_byte_implied", "sei", ""),
  (* 79 *) Entry("ADC", "AbsoluteY", 3, 4, "load_absolute_indexed", "adc", "y"),
  (* 7A *) Unmapped,
  (* 7B *) Unmapped,
  (* 7C *) Unmapped,
  (* 7D *) Entry("ADC", "AbsoluteX", 3, 4, "load_absolute_indexed", "adc", "x"),
  (* 7E *) Entry("ROR", "AbsoluteX", 3, 7, "load_store_absolute_x", "ror", ""),
  (* 7F *) Unmapped,
  (* 80 *) Unmapped,
  (* 81 *) Entry("STA", "IndirectX", 2, 6, "store_indirect_x", "sta", ""),
  (* 82 *) Unmapped,
  (* 83 *) Unmapped,
  (* 84 *) Entry("STY", "ZeroPage", 2, 3, "store_zero_page", "sty", ""),
  (* 85 *) Entry("STA", "ZeroPage", 2, 3, "store_zero_page", "sta", ""),
  (* 86 *) Entry("STX", "ZeroPage", 2, 3, "store_zero_page", "stx", ""),
  (* 87 *) Unmapped,
  (* 88 *) Entry("DEY", "Implied", 1, 2, "single_byte_implied", "dey", ""),
  (* 89 *) Unmapped,
  (* 8A *) Entry("TXA", "Implied", 1, 2, "single_byte_implied", "txa", ""),
  (* 8B *) Unmapped,
  (* 8C *) Entry("STY", "Absolute", 3, 4, "store_absolute", "sty", ""),
  (* 8D *) Entry("STA", "Absolute", 3, 4, "store_absolute", "sta", ""),
  (* 8E *) Entry("STX", "Absolute", 3, 4, "store_absolute", "stx", ""),
  (* 8F *) Unmapped,
  (* 90 *) Entry("BCC", "Relative", 2, 2, "branch_relative", "bcc", ""),
  (* 91 *) Entry("STA", "IndirectY", 2, 6, "store_indirect_y", "sta", ""),
  (* 92 *) Unmapped,
  (* 93 *) Unmapped,
  (* 94 *) Entry("STY", "ZeroPageX", 2, 4, "store_zero_page_indexed", "sty", "x"),
  (* 95 *) Entry("STA", "ZeroPageX", 2, 4, "store_zero_page_indexed", "sta", "x"),
  (* 96 *) Entry("STX", "ZeroPageY", 2, 4, "store_zero_page_indexed", "stx", "y"),
  (* 97 *) Unmapped,
  (* 98 *) Entry("TYA", "Implied", 1, 2, "single_byte_implied", "tya", ""),
  (* 99 *) Entry("STA", "AbsoluteY", 3, 5, "store_absolute_indexed", "sta", "y"),
  (* 9A *) Entry("TXS", "Implied", 1, 2, "single_byte_implied", "txs", ""),
  (* 9B *) Unmapped,
  (* 9C *) Unmapped,
  (* 9D *) Entry("STA", "AbsoluteX", 3, 5, "store_absolute_indexed", "sta", "x"),
  (* 9E *) Unmapped,
  (* 9F *) Unmapped,
  (* A0 *) Entry("LDY", "Immediate", 2, 2, "load_immediate", "ldy", ""),
  (* A1 *) Entry("LDA", "IndirectX", 2, 6, "load_indirect_x", "lda", ""),
  (* A2 *) Entry("LDX", "Immediate", 2, 2, "load_immediate", "ldx", ""),
  (* A3 *) Unmapped,
  (* A4 *) Entry("LDY", "ZeroPage", 2, 3, "load_zero_page", "ldy", ""),
  (* A5 *) Entry("LDA", "ZeroPage", 2, 3, "load_zero_page", "lda", ""),
  (* A6 *) Entry("LDX", "ZeroPage", 2, 3, "load_zero_page", "ldx", ""),
  (* A7 *) Unmapped,
  (* A8 *) Entry("TAY", "Implied", 1, 2, "single_byte_implied", "tay", ""),
  (* A9 *) Entry("LDA", "Immediate", 2, 2, "load_immediate", "lda", ""),
  (* AA *) Entry("TAX", "Implied", 1, 2, "single_byte_implied", "tax", ""),
  (* AB *) Unmapped,
  (* AC *) Entry("LDY", "Absolute", 3, 4, "load_absolute", "ldy", ""),
  (* AD *) Entry("LDA", "Absolute", 3, 4, "load_absolute", "lda", ""),
  (* AE *) Entry("LDX", "Absolute", 3, 4, "load_absolute", "ldx", ""),
  (* AF *) Unmapped,
  (* B0 *) Entry("BCS", "Relative", 2, 2, "branch_relative", "bcs", ""),
  (* B1 *) Entry("LDA", "IndirectY", 2, 5, "load_indirect_y", "lda", ""),
  (* B2 *) Unmapped,
  (* B3 *) Unmapped,
  (* B4 *) Entry("LDY", "ZeroPageX", 2, 4, "load_zero_page_indexed", "ldy", "x"),
  (* B5 *) Entry("LDA", "ZeroPageX", 2, 4, "load_zero_page_indexed", "lda", "x"),
  (* B6 *) Entry("LDX", "ZeroPageY", 2, 4, "load_zero_page_indexed", "ldx", "y"),
  (* B7 *) Unmapped,
  (* B8 *) Entry("CLV", "Implied", 1, 2, "single_byte_implied", "clv", ""),
  (* B9 *) Entry("LDA", "AbsoluteY", 3, 4, "load_absolute_indexed", "lda", "y"),
  (* BA *) Entry("TSX", "Implied", 1, 2, "single_byte_implied", "tsx", ""),
  (* BB *) Unmapped,
  (* BC *) Entry("LDY", "AbsoluteX", 3, 4, "load_absolute_indexed", "ldy", "x"),
  (* BD *) Entry("LDA", "AbsoluteX", 3, 4, "load_absolute_indexed", "lda", "x"),
  (* BE *) Entry("LDX", "AbsoluteY", 3, 4, "load_absolute_indexed", "ldx", "y"),
  (* BF *) Unmapped,
  (* C0 *) Entry("CPY", "ZeroPage", 2, 3, "load_zero_page", "cpy", ""),
  (* C1 *) Entry("CMP", "IndirectX", 2, 6, "load_indirect_x", "cmp", ""),
  (* C2 *) Unmapped,
  (* C3 *) Unmapped,
  (* C4 *) Entry("CPY", "Immediate", 2, 2, "load_immediate", "cpy", ""),
  (* C5 *) Entry("CMP", "ZeroPage", 2, 3, "load_zero_page", "cmp", ""),
  (* C6 *) Entry("DEC", "ZeroPage", 2, 5, "load_store_zero_page", "dec", ""),
  (* C7 *) Unmapped,
  (* C8 *) Entry("INY", "Implied", 1, 2, "single_byte_implied", "iny", ""),
  (* C9 *) Entry("CMP", "Immediate", 2, 2, "load_immediate", "cmp", ""),
  (* CA *) Entry("DEX", "Implied", 1, 2, "single_byte_implied", "dex", ""),
  (* CB *) Unmapped,
  (* CC *) Entry("CPY", "Absolute", 3, 4, "load_absolute", "cpy", ""),
  (* CD *) Entry("CMP", "Absolute", 3, 4, "load_absolute", "cmp", ""),
  (* CE *) Entry("DEC", "Absolute", 3, 6, "load_store_absolute", "dec", ""),
  (* CF *) Unmapped,
  (* D0 *) Entry("BNE", "Relative", 2, 2, "branch_relative", "bne", ""),
  (* D1 *) Entry("CMP", "IndirectY", 2, 5, "load_indirect_y", "cmp", ""),
  (* D2 *) Unmapped,
  (* D3 *) Unmapped,
  (* D4 *) Unmapped,
  (* D5 *) Entry("CMP", "ZeroPageX", 2, 4, "load_zero_page_indexed", "cmp", "x"),
  (* D6 *) Entry("DEC", "ZeroPageX", 2, 6, "load_store_zero_page_x", "dec", ""),
  (* D7 *) Unmapped,
  (* D8 *) Entry("CLD", "Implied", 1, 2, "single_byte_implied", "cld", ""),
  (* D9 *) Entry("CMP", "AbsoluteY", 3, 4, "load_absolute_indexed", "cmp", "y"),
  (* DA *) Unmapped,
  (* DB *) Unmapped,
  (* DC *) Unmapped,
  (* DD *) Entry("CMP", "AbsoluteX", 3, 4, "load_absolute_indexed", "cmp", "x"),
  (* DE *) Entry("DEC", "AbsoluteX", 3, 7, "load_store_absolute_x", "dec", ""),
  (* DF *) Unmapped,
  (* E0 *) Entry("CPX", "Immediate", 2, 2, "load_immediate", "cpx", ""),
  (* E1 *) Entry("SBC", "IndirectX", 2, 6, "load_indirect_x", "sbc", ""),
  (* E2 *) Unmapped,
  (* E3 *) Unmapped,
  (* E4 *) Entry("CPX", "ZeroPage", 2, 3, "load_zero_page", "cpx", ""),
  (* E5 *) Entry("SBC", "ZeroPage", 2, 3, "load_zero_page", "sbc", ""),
  (* E6 *) Entry("INC", "ZeroPage", 2, 5, "load_store_zero_page", "inc", ""),
  (* E7 *) Unmapped,
  (* E8 *) Entry("INX", "Implied", 1, 2, "single_byte_implied", "inx", ""),
  (* E9 *) Entry("SBC", "Immediate", 2, 2, "load_immediate", "sbc", ""),
  (* EA *) Entry("NOP", "Implied", 1, 2, "single_byte_implied", "nop", ""),
  (* EB *) Unmapped,
  (* EC *) Entry("CPX", "Absolute", 3, 4, "load_absolute", "cpx", ""),
  (* ED *) Entry("SBC", "Absolute", 3, 4, "load_absolute", "sbc", ""),
  (* EE *) Entry("INC", "Absolute", 3, 6, "load_store_absolute", "inc", ""),
  (* EF *) Unmapped,
  (* F0 *) Entry("BEQ", "Relative", 2, 2, "branch_relative", "beq", ""),
  (* F1 *) Entry("SBC", "IndirectY", 2, 5, "load_indirect_y", "sbc", ""),
  (* F2 *) Unmapped,
  (* F3 *) Unmapped,
  (* F4 *) Unmapped,
  (* F5 *) Entry("SBC", "ZeroPageX", 2, 4, "load_zero_page_indexed", "sbc", "x"),
  (* F6 *) Entry("INC", "ZeroPageX", 2, 6, "load_store_zero_page_x", "inc", ""),
  (* F7 *) Unmapped,
  (* F8 *) Entry("SED", "Implied", 1, 2, "single_byte_implied", "sed", ""),
  (* F9 *) Entry("SBC", "AbsoluteY", 3, 4, "load_absolute_indexed", "sbc", "y"),
  (* FA *) Unmapped,
  (* FB *) Unmapped,
  (* FC *) Unmapped,
  (* FD *) Entry("SBC", "AbsoluteX", 3, 4, "load_absolute_indexed", "sbc", "x"),
  (* FE *) Entry("INC", "AbsoluteX", 3, 7, "load_store_absolute_x", "inc", ""),
  (* FF *) Unmapped
  >>

\* the entry of the table for the byte value v
Opcode(v) == OPCODES[v + 1]

\* the entry has a micro-op sequence (ucode is Some)
Mapped(v) == Opcode(v).ucode # "none"

\* the slice the macro named in the entry expands to
Sequence(e) ==
  CASE e.ucode = "single_byte_implied" -> single_byte_implied(e.func)
    [] e.ucode = "single_byte_accumulator" -> single_byte_accumulator(e.func)
    [] e.ucode = "load_immediate" -> load_immediate(e.func)
    [] e.ucode = "load_zero_page" -> load_zero_page(e.func)
    [] e.ucode = "load_absolute" -> load_absolute(e.func)
    [] e.ucode = "load_indirect_x" -> load_indirect_x(e.func)
    [] e.ucode = "load_indirect_y" -> load_indirect_y(e.func)
    [] e.ucode = "load_absolute_indexed" -> load_absolute_indexed(e.func, e.reg)
    [] e.ucode = "load_zero_page_indexed" -> load_zero_page_indexed(e.func, e.reg)
    [] e.ucode = "store_zero_page" -> store_zero_page(e.func)
    [] e.ucode = "store_absolute" -> store_absolute(e.func)
    [] e.ucode = "store_indirect_x" -> store_indirect_x(e.func)
    [] e.ucode = "store_indirect_y" -> store_indirect_y(e.func)
    [] e.ucode = "store_absolute_indexed" -> store_absolute_indexed(e.func, e.reg)
    [] e.ucode = "store_zero_page_indexed" -> store_zero_page_indexed(e.func, e.reg)
    [] e.ucode = "load_store_zero_page" -> load_store_zero_page(e.func)
    [] e.ucode = "load_store_absolute" -> load_store_absolute(e.func)
    [] e.ucode = "load_store_zero_page_x" -> load_store_zero_page_x(e.func)
    [] e.ucode = "load_store_absolute_x" -> load_store_absolute_x(e.func)
    [] e.ucode = "push_implied" -> push_implied(e.func)
    [] e.ucode = "pull_implied" -> pull_implied(e.func)
    [] e.ucode = "break_implied" -> break_implied(e.func)
    [] e.ucode = "jump_to_subroutine_absolute" -> jump_to_subroutine_absolute(e.func)
    [] e.ucode = "return_from_subroutine_implied" -> return_from_subroutine_implied(e.func)
    [] e.ucode = "return_from_interrupt_implied" -> return_from_interrupt_implied(e.func)
    [] e.ucode = "jump_absolute" -> jump_absolute(e.func)
    [] e.ucode = "jump_indirect" -> jump_indirect(e.func)
    [] e.ucode = "branch_relative" -> branch_relative(e.func)

\* the slice a pipeline handle refers to; a handle is the opcode value whose
\* entry owns the slice
Ucode(v) == Sequence(Opcode(v))

(* ----------------------------------------------------------------------- *)
(* struct Cpu (cpu/src/cpu.rs)                                             *)
(* ----------------------------------------------------------------------- *)

RECURSIVE ExecuteLoop(_)
\* the rest of an iteration of the loop of Cpu::cycle once the micro-op has
\* returned r: end of pipeline, cycle accounting, break or continue
Executed(r, len) ==
  LET s1 == IF r.s.index >= len THEN [r.s EXCEPT !.pipeline = None] ELSE r.s
  IN  IF r.s.failed # "none" THEN r.s
      ELSE IF r.cyc # 0 THEN [s1 EXCEPT !.cycle = @ + r.cyc]
      ELSE IF s1.pipeline = None THEN s1
      ELSE ExecuteLoop(s1)

\* the loop of Cpu::cycle over the installed pipeline
ExecuteLoop(s) ==
  Executed(MicroOpExecute(Ucode(s.pipeline)[s.index + 1], [s EXCEPT !.index = @ + 1]),
           Len(Ucode(s.pipeline)))

Fetch_KeepIndex(s) ==
  LET pc == s.pc
      op == MemAt(s, pc)
      s1 == BusRead([s EXCEPT !.pc = Wrap16(pc + 1)], pc)
  IN  IF ~Mapped(op) THEN Panic(s1, "invalid opcode")
      ELSE [s1 EXCEPT !.ctx = NewContext, !.pipeline = op, !.cycle = @ + 1]

\* the fetch & decode branch of Cpu::cycle, with decode_instruction
Fetch(s) ==
  LET pc == s.pc
      op == MemAt(s, pc)
      s1 == BusRead([s EXCEPT !.pc = Wrap16(pc + 1)], pc)
  IN  IF ~Mapped(op) THEN Panic(s1, "invalid opcode")
      ELSE [s1 EXCEPT !.ctx = NewContext, !.index = 0, !.pipeline = op,
                      !.cycle = @ + 1]

\* Cpu::cycle (the body of Cpu::step_cycle)
Cycle(s) == IF s.pipeline = None THEN Fetch(s) ELSE ExecuteLoop(s)

\* the loop `while self.pipeline.is_some() { self.step_cycle(bus) }`
RECURSIVE WhilePipeline(_)
WhilePipeline(s) ==
  IF s.failed # "none" \/ s.pipeline = None THEN s ELSE WhilePipeline(Cycle(s))

CpuStepInstruction_NoFetch(s) == WhilePipeline(s)

\* Cpu::step_instruction
CpuStepInstruction(s) == WhilePipeline(IF s.pipeline = None THEN Cycle(s) ELSE s)

\* self.cycle += cycle as u64 in the loop of Cpu::reset
Charged(r) == [r.s EXCEPT !.cycle = @ + r.cyc]

\* the loop of Cpu::reset over ucode_reset, from its i-th micro-op on; the
\* context of s stands for the local `ctx` of reset
RECURSIVE ResetLoop(_, _)
ResetLoop(s, i) ==
  IF i > Len(ucode_reset) \/ s.failed # "none" THEN s
  ELSE ResetLoop(Charged(MicroOpExecute(ucode_reset[i], s)), i + 1)

\* the local `ctx` of Cpu::reset is dropped at its end: self.ctx stays the
\* fresh context assigned at its start
DropLocal(s) == IF s.failed # "none" THEN s ELSE [s EXCEPT !.ctx = NewContext]

CpuReset_KeepPipeline(s) ==
  DropLocal(ResetLoop([s EXCEPT !.cycle = 0, !.index = 0, !.ctx = NewContext], 1))

\* Cpu::reset
CpuReset(s) ==
  DropLocal(ResetLoop([s EXCEPT !.cycle = 0, !.index = 0, !.ctx = NewContext,
                                !.pipeline = None], 1))

(* ----------------------------------------------------------------------- *)
(* State                                                                   *)
(* ----------------------------------------------------------------------- *)

VARIABLES
  acc, x, y, sp, pc,   \* Cpu::registers
  status,              \* Cpu::status
  cycle,               \* Cpu::cycle
  index,               \* Cpu::index
  ctx,                 \* Cpu::ctx
  pipeline,            \* Cpu::pipeline: None or the opcode owning the slice
  rom,                 \* the image the store behind the bus started with
  mem,                 \* the bytes written through the bus since
  failed,              \* "none", or the message of the panic that aborted
  bus,                 \* the bus accesses of the latest call, in order
  peak,                \* the deepest context stack seen so far
  trace,               \* the bus accesses since the latest opcode fetch
  cur,                 \* the instruction fetched last and the state it met
  delta,               \* the cycles the latest call added to the counter
  last,                \* the latest call: "new", "reset", "fetch", "exec", "call"
  instrs,              \* the number of opcode fetches so far
  resets,              \* the number of calls of reset so far
  resetFrom,           \* the pipeline handle the latest reset found
  source,              \* File::source, the text handed to the assembler
  raw_tokens,          \* the tokens File::lex_tokens returned
  tokens,              \* preprocess_tokens: the slice still to be read
  defs,                \* preprocess_tokens: the MacroTable
  out_tokens,          \* preprocess_tokens: the tokens put out so far
  result,              \* what preprocess returned, and the macro added last
  image                \* what assemble returned

vars == << acc, x, y, sp, pc, status, cycle, index, ctx, pipeline, rom, mem,
           failed, bus, peak, trace, cur, delta, last, instrs, resets, resetFrom,
           source, raw_tokens, tokens, defs, out_tokens, result, image >>

asmvars == << source, raw_tokens, tokens, defs, out_tokens, result, image >>

\* no macro added yet, nothing returned yet
NoResult ==
  [kind |-> "none", at |-> 0, reason |-> "", value |-> << >>,
   added |-> << >>]

\* the assembler has been given nothing
NoAssembly ==
  /\ source = << >> /\ raw_tokens = << >> /\ tokens = << >>
  /\ defs = [n \in {} |-> 0] /\ out_tokens = << >>
  /\ result = NoResult /\ image = [kind |-> "none", bytes |-> << >>]

\* the machine the operators above work on, with no access made yet
Machine ==
  [acc |-> acc, x |-> x, y |-> y, sp |-> sp, pc |-> pc, status |-> status,
   cycle |-> cycle, index |-> index, ctx |-> ctx, pipeline |-> pipeline,
   rom |-> rom, mem |-> mem, failed |-> failed, bus |-> << >>, peak |-> peak]

\* the machine s becomes the next state
Install(s) ==
  /\ acc' = s.acc /\ x' = s.x /\ y' = s.y /\ sp' = s.sp /\ pc' = s.pc
  /\ status' = s.status /\ cycle' = s.cycle /\ index' = s.index
  /\ ctx' = s.ctx /\ pipeline' = s.pipeline /\ rom' = s.rom /\ mem' = s.mem
  /\ failed' = s.failed /\ bus' = s.bus /\ peak' = s.peak

(* ----------------------------------------------------------------------- *)
(* Inputs                                                                  *)
(* ----------------------------------------------------------------------- *)

\* entry points: the start of a page and three bytes before the end of one
Entries == {4096, 4349}

\* first operand byte: a small value, the sign bit alone, the largest byte
Operand1 == {2, 128, 255}

\* second operand byte: a page in the middle and the last page
Operand2 == {32, 255}

\* register files: the one Cpu::new builds, and files with the index
\* registers at 0, 1 and 255, the flags N, V, Z, C all clear or all set
RegisterFiles ==
  { [acc |-> 0, x |-> 0, y |-> 0, sp |-> 0, status |-> 0],
    [acc |-> 129, x |-> 1, y |-> 1, sp |-> 255, status |-> 195],
    [acc |-> 129, x |-> 255, y |-> 0, sp |-> 255, status |-> 0],
    [acc |-> 0, x |-> 1, y |-> 0, sp |-> 253, status |-> 0],
    [acc |-> 0, x |-> 0, y |-> 1, sp |-> 0, status |-> 195] }

\* no instruction fetched yet
NoInstr ==
  [addr |-> 0, opc |-> None, cycle0 |-> 0, acc |-> 0, x |-> 0, y |-> 0, sp |-> 0,
   status |-> 0]

(* ----------------------------------------------------------------------- *)
(* Initial state: Cpu::new with registers and flags a program can have     *)
(* left behind, and a store holding one instruction at the entry point     *)
(* ----------------------------------------------------------------------- *)

Init ==
  /\ \E r \in RegisterFiles :
       acc = r.acc /\ x = r.x /\ y = r.y /\ sp = r.sp /\ status = r.status
  /\ pc = 0
  /\ cycle = 0 /\ index = 0 /\ ctx = NewContext /\ pipeline = None
  /\ rom \in [entry : Entries, b0 : Byte, b1 : Operand1, b2 : Operand2]
  /\ mem = [a \in {} |-> 0]
  /\ failed = "none"
  /\ bus = << >> /\ peak = 0 /\ trace = << >> /\ cur = NoInstr
  /\ delta = 0 /\ last = "new" /\ instrs = 0 /\ resets = 0 /\ resetFrom = None
  /\ NoAssembly

(* ----------------------------------------------------------------------- *)
(* Actions                                                                 *)
(* ----------------------------------------------------------------------- *)

\* cpu.reset(bus)
Reset ==
  /\ failed = "none"
  /\ resets < MaxResets
  /\ \E s1 \in {CpuReset(Machine)} :
       /\ Install(s1)
       /\ trace' = s1.bus
       /\ delta' = s1.cycle
  /\ cur' = NoInstr
  /\ last' = "reset"
  /\ resets' = resets + 1
  /\ resetFrom' = pipeline
  /\ UNCHANGED instrs
  /\ UNCHANGED asmvars

\* cpu.step_cycle(bus), called once the cpu has been reset
StepCycle ==
  /\ failed = "none"
  /\ resets >= 1
  /\ pipeline # None \/ instrs < MaxInstr
  /\ \E s1 \in {Cycle(Machine)} :
       LET fetch == pipeline = None
       IN  /\ Install(s1)
           /\ trace' = IF fetch THEN s1.bus ELSE trace \o s1.bus
           /\ delta' = s1.cycle - cycle
           /\ cur' = IF fetch
                       THEN [addr |-> pc, opc |-> MemAt(Machine, pc), cycle0 |-> cycle,
                             acc |-> acc, x |-> x, y |-> y, sp |-> sp,
                             status |-> status]
                       ELSE cur
           /\ last' = IF fetch THEN "fetch" ELSE "exec"
           /\ instrs' = IF fetch THEN instrs + 1 ELSE instrs
  /\ UNCHANGED << resets, resetFrom >>
  /\ UNCHANGED asmvars

Next == Reset \/ StepCycle

Spec == Init /\ [][Next]_vars

(* ----------------------------------------------------------------------- *)
(* The cpu driven through both entry points, step_cycle and                *)
(* step_instruction                                                        *)
(* ----------------------------------------------------------------------- *)

\* cpu.step_instruction(bus), called once the cpu has been reset
StepInstruction ==
  /\ failed = "none"
  /\ resets >= 1
  /\ pipeline # None \/ instrs < MaxInstr
  /\ \E s1 \in {CpuStepInstruction(Machine)} :
       LET fetch == pipeline = None
       IN  /\ Install(s1)
           /\ trace' = IF fetch THEN s1.bus ELSE trace \o s1.bus
           /\ delta' = s1.cycle - cycle
           /\ cur' = IF fetch
                       THEN [addr |-> pc, opc |-> MemAt(Machine, pc), cycle0 |-> cycle,
                             acc |-> acc, x |-> x, y |-> y, sp |-> sp,
                             status |-> status]
                       ELSE cur
           /\ last' = "instr"
           /\ instrs' = IF fetch THEN instrs + 1 ELSE instrs
  /\ UNCHANGED << resets, resetFrom >>
  /\ UNCHANGED asmvars

NextInstr == Reset \/ StepCycle \/ StepInstruction

SpecInstr == Init /\ [][NextInstr]_vars

(* ----------------------------------------------------------------------- *)
(* The cpu started on a call: a JSR at the entry point, an RTS at the      *)
(* address it names                                                        *)
(* ----------------------------------------------------------------------- *)

JSR == 32

RTS == 96

\* entry points; the byte before the return address of a JSR at 0x10FD and
\* at 0x10FE lies at the end of a page
CallEntries == {4096, 4349, 4350, 4351}

InitCall ==
  /\ \E r \in RegisterFiles :
       acc = r.acc /\ x = r.x /\ y = r.y /\ sp = r.sp /\ status = r.status
  /\ pc = 0
  /\ cycle = 0 /\ index = 0 /\ ctx = NewContext /\ pipeline = None
  /\ rom \in [entry : CallEntries, b0 : {JSR}, b1 : Operand1, b2 : Operand2]
  /\ mem = [a \in {from_le_bytes(rom.b1, rom.b2)} |-> RTS]
  /\ failed = "none"
  /\ bus = << >> /\ peak = 0 /\ trace = << >> /\ cur = NoInstr
  /\ delta = 0 /\ last = "new" /\ instrs = 0 /\ resets = 0 /\ resetFrom = None
  /\ NoAssembly

SpecCall == InitCall /\ [][Next]_vars

(* ----------------------------------------------------------------------- *)
(* The instruction bodies on their own: the call func(cpu, ctx) that       *)
(* MicroOp::Execute makes, with the operand on top of the context stack,   *)
(* for every accumulator, every operand and both values of the carry flag  *)
(* ----------------------------------------------------------------------- *)

\* the bodies called
Bodies == {"adc", "sbc"}

\* status registers the bodies are called with: I and B as reset leaves
\* them, carry clear and carry set
BodyStatus == {INTERRUPT + BREAK, INTERRUPT + BREAK + CARRY}

\* no body called yet
NoCall == [f |-> "", acc |-> 0, operand |-> 0, status |-> 0]

InitBody ==
  /\ acc \in Byte
  /\ \E m \in Byte : ctx = [temp |-> 0, stack |-> << m >>]
  /\ status \in BodyStatus
  /\ x = 0 /\ y = 0 /\ sp = 0 /\ pc = 0
  /\ cycle = 0 /\ index = 0 /\ pipeline = None
  /\ rom = [entry |-> 4096, b0 |-> 234, b1 |-> 2, b2 |-> 32]
  /\ mem = [a \in {} |-> 0]
  /\ failed = "none"
  /\ bus = << >> /\ peak = 1 /\ trace = << >> /\ cur = NoCall
  /\ delta = 0 /\ last = "new" /\ instrs = 0 /\ resets = 0 /\ resetFrom = None
  /\ NoAssembly

\* func(cpu, ctx) for the body f
Call(f) ==
  /\ last = "new"
  /\ \E s1 \in {Func(f, Machine)} : Install(s1)
  /\ cur' = [f |-> f, acc |-> acc, operand |-> ctx.stack[1], status |-> status]
  /\ last' = "call"
  /\ UNCHANGED << trace, delta, instrs, resets, resetFrom >>
  /\ UNCHANGED asmvars

NextBody == \E f \in Bodies : Call(f)

SpecBody == InitBody /\ [][NextBody]_vars

(* ----------------------------------------------------------------------- *)
(* The assembler: the lexer (RawTokenKind, File::lex_tokens)               *)
(*                                                                         *)
(* A text is a sequence of one-character strings. The lexer is the one the *)
(* logos derive builds from the patterns of RawTokenKind: at each position *)
(* the longest match wins, a position no pattern matches gives an Error    *)
(* token of one character, and a match of a pattern marked logos::skip     *)
(* gives no token.                                                         *)
(* ----------------------------------------------------------------------- *)

Lower == {"a", "b", "c", "d", "e", "f", "g", "h", "i", "j", "k", "l", "m", "n", "o", "p", "q", "r", "s", "t", "u", "v", "w", "x", "y", "z"}
Upper == {"A", "B", "C", "D", "E", "F", "G", "H", "I", "J", "K", "L", "M", "N", "O", "P", "Q", "R", "S", "T", "U", "V", "W", "X", "Y", "Z"}
Digit == {"0", "1", "2", "3", "4", "5", "6", "7", "8", "9"}
Letter == Lower \cup Upper
HexDigit == Digit \cup {"a", "b", "c", "d", "e", "f", "A", "B", "C", "D", "E", "F"}

\* the character at position i, "" past the end
At(src, i) == IF i <= Len(src) THEN src[i] ELSE ""

\* the number of characters from position i on that lie in S
RECURSIVE Run(_, _, _)
Run(src, i, S) ==
  IF i <= Len(src) /\ src[i] \in S THEN 1 + Run(src, i + 1, S) ELSE 0

\* the number of characters from position i on that lie outside S
RECURSIVE RunNot(_, _, _)
RunNot(src, i, S) ==
  IF i <= Len(src) /\ src[i] \notin S THEN 1 + RunNot(src, i + 1, S) ELSE 0

\* the length of a match of a prefix of n characters and one or more of S
Prefixed(n, run) == IF run > 0 THEN n + run ELSE 0

\* #[token(..)] of one character
Punctuation ==
  ("+" :> "Add") @@ ("-" :> "Sub") @@ ("*" :> "Mul") @@ ("/" :> "Div") @@
  ("%" :> "Mod") @@ ("~" :> "Not") @@ ("&" :> "And") @@ ("|" :> "Or") @@
  ("^" :> "Xor") @@ ("," :> "Comma") @@ (":" :> "Colon") @@ ("#" :> "Hash") @@
  ("(" :> "LParen") @@ (")" :> "RParen") @@ ("\n" :> "Newline")

\* the patterns of RawTokenKind with the length each matches at position i
\* (0: no match)
Patterns(src, i) ==
  << [kind |-> "PreProcessor",
      len |-> IF At(src, i) = "%" THEN Prefixed(1, Run(src, i + 1, Lower)) ELSE 0],
     [kind |-> "Directive",
      len |-> IF At(src, i) = "." THEN Prefixed(1, Run(src, i + 1, Lower)) ELSE 0],
     [kind |-> "Identifier", len |-> Run(src, i, Letter)],
     [kind |-> "Number",
      len |-> IF At(src, i) = "0" /\ At(src, i + 1) = "b"
                THEN Prefixed(2, Run(src, i + 2, {"0", "1"})) ELSE 0],
     [kind |-> "Number",
      len |-> IF At(src, i) = "0" /\ At(src, i + 1) = "o"
                THEN Prefixed(2, Run(src, i + 2, {"0", "1", "2", "3", "4", "5", "6", "7"}))
                ELSE 0],
     [kind |-> "Number", len |-> Run(src, i, Digit)],
     [kind |-> "Number",
      len |-> IF At(src, i) = "$" THEN Prefixed(1, Run(src, i + 1, HexDigit))
              ELSE IF At(src, i) = "0" /\ At(src, i + 1) = "x"
                THEN Prefixed(2, Run(src, i + 2, HexDigit)) ELSE 0],
     [kind |-> "Char",
      len |-> IF At(src, i) # "'" THEN 0
              ELSE IF At(src, i + 1) \notin {"", "\n", "\t"} /\ At(src, i + 2) = "'" THEN 3
              ELSE IF /\ At(src, i + 1) = "\\"
                      /\ At(src, i + 2) \in {"0", "n", "t", "f", "r"}
                      /\ At(src, i + 3) = "'" THEN 4
              ELSE 0],
     [kind |-> "String",
      len |-> IF At(src, i) = "\"" /\ At(src, i + 1 + RunNot(src, i + 1, {"\""})) = "\""
                THEN RunNot(src, i + 1, {"\""}) + 2 ELSE 0],
     [kind |-> IF At(src, i) \in DOMAIN Punctuation THEN Punctuation[At(src, i)] ELSE "",
      len |-> IF At(src, i) \in DOMAIN Punctuation THEN 1 ELSE 0],
     [kind |-> "Shl", len |-> IF At(src, i) = "<" /\ At(src, i + 1) = "<" THEN 2 ELSE 0],
     [kind |-> "Shr", len |-> IF At(src, i) = ">" /\ At(src, i + 1) = ">" THEN 2 ELSE 0],
     [kind |-> "Whitespace", len |-> Run(src, i, {" ", "\t"})],
     [kind |-> "Comment",
      len |-> IF At(src, i) = ";" THEN 1 + RunNot(src, i + 1, {"\n"}) ELSE 0],
     [kind |-> "skip",
      len |-> IF At(src, i) = "\\" /\ At(src, i + 1) = "\n" THEN 2 ELSE 0] >>

\* the longest of the matches c, an Error of one character if there is none
Longest(c) ==
  LET best == CHOOSE k \in DOMAIN c :
                \A j \in DOMAIN c : c[k].len > c[j].len \/ (c[k].len = c[j].len /\ k <= j)
  IN  IF c[best].len = 0 THEN [kind |-> "Error", len |-> 1] ELSE c[best]

RawToken_OneBased(src, i, m) ==
  [kind |-> m.kind, span |-> [start |-> i, end |-> i + m.len],
   value |-> SubSeq(src, i, i - 1 + m.len)]

\* RawToken { kind, source }: the span, and source.value() with it
RawToken(src, i, m) ==
  [kind |-> m.kind, span |-> [start |-> i - 1, end |-> i - 1 + m.len],
   value |-> SubSeq(src, i, i - 1 + m.len)]

\* the tokens from position i on, m being the match at i
RECURSIVE Spanned(_, _, _)
Spanned(src, i, m) ==
  IF i > Len(src) THEN << >>
  ELSE (IF m.kind = "skip" THEN << >> ELSE << RawToken(src, i, m) >>)
       \o Spanned(src, i + m.len, Longest(Patterns(src, i + m.len)))

\* File::lex_tokens
lex_tokens(src) == Spanned(src, 1, Longest(Patterns(src, 1)))

(* ----------------------------------------------------------------------- *)
(* The assembler: the preprocessor                                         *)
(*                                                                         *)
(* A slice of tokens is a sequence, and a function that advances the slice *)
(* returns the rest of it in the field tokens. Option<T> is a sequence of  *)
(* at most one T. A Result is a record whose field fail is NoFail for Ok;  *)
(* a panic is a fail of kind "panic", and a loop that never ends one of    *)
(* kind "hang". A source location is kept as the index it is looked up by. *)
(* ----------------------------------------------------------------------- *)

RECURSION_LIMIT == 10

NoFail == [kind |-> "none", at |-> 0, reason |-> "", value |-> << >>]

\* SyntaxError::new(loc, reason), loc being the location of index at
SyntaxError(at, reason, value) ==
  [kind |-> "Err", at |-> at, reason |-> reason, value |-> value]

Aborted(kind, reason) == [kind |-> kind, at |-> 0, reason |-> reason, value |-> << >>]

\* error::unexpected_token
unexpected_token(token, context) ==
  SyntaxError(token.span.start, "unexpected token '{}' in " \o context, token.value)

\* error::expected_delimiter(")", opening, context)
expected_delimiter(opening, context) ==
  SyntaxError(opening.span.start, "expected ')' to end opening '{}' in " \o context,
              opening.value)

Least(S) == CHOOSE k \in S : \A j \in S : k <= j

Greatest(S) == CHOOSE k \in S : \A j \in S : k >= j

\* File::lookup_by_index: the line and column of an index of the text
lookup_by_index(src, i) ==
  LET starts == {0} \cup {k \in 1..Len(src) : src[k] = "\n"}
      start == Greatest({k \in starts : k <= i})
  IN  [line |-> Cardinality({k \in starts : k <= start}), column |-> (i - start) + 1]

is_eol(token) == token.kind \in {"Comment", "Newline"}

\* tokens.first() is a token of one of the kinds
FirstIs(toks, kinds) == toks # << >> /\ toks[1].kind \in kinds

\* the slice from its token i on
From(toks, i) == SubSeq(toks, i, Len(toks))

\* the number of leading tokens of the slice take_while(tokens, is_not_eol) takes
NotEol(toks) ==
  LET stop == {k \in 1..Len(toks) : is_eol(toks[k])}
  IN  IF stop = {} THEN Len(toks) ELSE Least(stop) - 1

skip_whitespace(toks) ==
  LET stop == {k \in 1..Len(toks) : toks[k].kind # "Whitespace"}
  IN  IF stop = {} THEN << >> ELSE From(toks, Least(stop))

skip_eol(toks) ==
  IF FirstIs(toks, {"Comment"})
    THEN (IF FirstIs(Tail(toks), {"Newline"}) THEN Tail(Tail(toks)) ELSE Tail(toks))
    ELSE IF FirstIs(toks, {"Newline"}) THEN Tail(toks) ELSE toks

\* Macro::new
Macro(name, params, def) == [name |-> name, params |-> params, def |-> def]

\* the definition read from the first n tokens: MacroToken::Parameter for a
\* token whose text is one of params, MacroToken::Token for the others
Definition(toks, n, params) ==
  [k \in 1..n |->
     [parameter |-> \E i \in DOMAIN params : params[i] = toks[k].value,
      token |-> toks[k]]]

\* preprocess_define_const, toks being the slice after skip_whitespace
preprocess_define_const(name, toks) ==
  [tokens |-> skip_eol(From(toks, NotEol(toks) + 1)),
   def |-> << Macro(name, << >>, Definition(toks, NotEol(toks), << >>)) >>,
   fail |-> NoFail]

\* the loop 'outer of preprocess_define_func over the parameter list: its
\* second half, after a parameter has been pushed
RECURSIVE ParameterList(_, _, _)
AfterParameter(lparen, toks, params) ==
  IF toks = << >> \/ is_eol(toks[1])
    THEN [tokens |-> toks, params |-> params,
          fail |-> expected_delimiter(lparen, "macro parameter list")]
  ELSE IF toks[1].kind = "RParen"
    THEN [tokens |-> Tail(toks), params |-> params, fail |-> NoFail]
  ELSE IF toks[1].kind = "Comma"
    THEN ParameterList(lparen, skip_whitespace(Tail(toks)), params)
  ELSE [tokens |-> Tail(toks), params |-> params,
        fail |-> unexpected_token(toks[1], "macro parameter list")]

\* the loop 'outer of preprocess_define_func over the parameter list; a name
\* is removed where it was in params and pushed at the end
ParameterList(lparen, toks, params) ==
  IF toks = << >> \/ is_eol(toks[1])
    THEN [tokens |-> toks, params |-> params, fail |-> NoFail]
  ELSE IF toks[1].kind = "RParen"
    THEN [tokens |-> Tail(toks), params |-> params, fail |-> NoFail]
  ELSE IF toks[1].kind # "Identifier"
    THEN [tokens |-> Tail(toks), params |-> params,
          fail |-> unexpected_token(toks[1], "macro parameter list")]
  ELSE AfterParameter(lparen, skip_whitespace(Tail(toks)),
                      SelectSeq(params, LAMBDA p : p # toks[1].value)
                        \o << toks[1].value >>)

\* preprocess_define_func
preprocess_define_func(name, toks) ==
  LET p == ParameterList(toks[1], skip_whitespace(Tail(toks)), << >>)
      body == skip_whitespace(p.tokens)
  IN  IF p.fail # NoFail THEN [tokens |-> p.tokens, def |-> << >>, fail |-> p.fail]
      ELSE [tokens |-> From(body, NotEol(body) + 2),
            def |-> << Macro(name, << p.params >>,
                             Definition(body, NotEol(body), p.params)) >>,
            fail |-> NoFail]

\* preprocess_define after the name, toks being the slice after it
AfterName(name, toks) ==
  IF toks = << >> \/ is_eol(toks[1])
    THEN [tokens |-> toks, def |-> << Macro(name, << >>, << >>) >>, fail |-> NoFail]
  ELSE IF toks[1].kind = "Whitespace"
    THEN preprocess_define_const(name, skip_whitespace(toks))
  ELSE IF toks[1].kind = "LParen"
    THEN preprocess_define_func(name, toks)
  ELSE [tokens |-> toks, def |-> << >>,
        fail |-> SyntaxError(toks[1].span.start, "unexpected token", << >>)]

\* preprocess_define
preprocess_define(toks) ==
  LET t == skip_whitespace(toks)
  IN  IF t = << >> \/ is_eol(t[1])
        THEN [tokens |-> skip_eol(t), def |-> << >>, fail |-> NoFail]
      ELSE IF t[1].kind # "Identifier"
        THEN [tokens |-> Tail(t), def |-> << >>,
              fail |-> SyntaxError(t[1].span.start, "expected macro name", << >>)]
      ELSE AfterName(t[1].value, Tail(t))

\* MacroSet::new
MacroSet(name) == [name |-> name, constant |-> << >>, overloads |-> << >>]

\* MacroSet::add with the search reporting a match at any index it finds one
MacroSet_add_Appends(set, params, def) ==
  IF params # << >>
    THEN [set EXCEPT !.overloads = Append(@, [params |-> params[1], def |-> def])]
    ELSE [set EXCEPT !.constant = << def >>]

\* MacroSet::add; binary_search_by_key over the overloads, which add keeps in
\* the order of their parameter counts: Ok(index) of the overload with as
\* many parameters, or Err(index) of the place where one belongs
MacroSet_add(set, params, def) ==
  IF params # << >>
    THEN LET found == {i \in DOMAIN set.overloads :
                         Len(set.overloads[i].params) = Len(params[1])}
             below == {i \in DOMAIN set.overloads :
                         Len(set.overloads[i].params) < Len(params[1])}
             entry == [params |-> params[1], def |-> def]
         IN  IF found # {}
               THEN [set EXCEPT !.overloads[CHOOSE i \in found : TRUE] = entry]
               ELSE [set EXCEPT !.overloads =
                       SubSeq(@, 1, Cardinality(below)) \o << entry >>
                       \o From(@, Cardinality(below) + 1)]
    ELSE [set EXCEPT !.constant = << def >>]

\* MacroSet::get_overload
get_overload(set, args) ==
  LET found == {i \in DOMAIN set.overloads : Len(set.overloads[i].params) = args}
  IN  IF found = {} THEN << >> ELSE << set.overloads[Least(found)] >>

\* MacroTable::add_macro
add_macro(table, def) ==
  [n \in DOMAIN table \cup {def.name} |->
     IF n = def.name
       THEN MacroSet_add(IF n \in DOMAIN table THEN table[n] ELSE MacroSet(n),
                         def.params, def.def)
       ELSE table[n]]

\* expand_macro_const
expand_macro_const(def) == [k \in DOMAIN def |-> def[k].token]

\* expand_macro_func
RECURSIVE expand_macro_func(_, _, _)
expand_macro_func(args, params, def) ==
  IF def = << >> THEN << >>
  ELSE (IF def[1].parameter
          THEN args[CHOOSE i \in DOMAIN params : params[i] = def[1].token.value]
          ELSE << def[1].token >>)
       \o expand_macro_func(args, params, Tail(def))

\* the take_while of take_macro_arg: the number of tokens it takes, and the
\* '(' tokens left open
RECURSIVE ArgTokens(_, _, _)
ArgTokens(toks, n, parens) ==
  IF n >= Len(toks) THEN [n |-> n, parens |-> parens]
  ELSE IF toks[n + 1].kind = "RParen"
    THEN (IF parens = << >> THEN [n |-> n, parens |-> parens]
          ELSE ArgTokens(toks, n + 1, SubSeq(parens, 1, Len(parens) - 1)))
  ELSE IF is_eol(toks[n + 1]) \/ toks[n + 1].kind = "Comma"
    THEN [n |-> n, parens |-> parens]
  ELSE ArgTokens(toks, n + 1, IF toks[n + 1].kind = "LParen"
                                THEN Append(parens, toks[n + 1]) ELSE parens)

\* take_macro_arg
take_macro_arg(toks) ==
  LET t == skip_whitespace(toks)
      a == ArgTokens(t, 0, << >>)
  IN  IF a.parens # << >>
        THEN [tokens |-> From(t, a.n + 1), arg |-> << >>,
              fail |-> expected_delimiter(a.parens[Len(a.parens)], "macro arg")]
        ELSE [tokens |-> From(t, a.n + 1), arg |-> SubSeq(t, 1, a.n), fail |-> NoFail]

\* collect_macro_args: the loop, entered with the arguments args collected;
\* when the slice ends before a ')' the loop pushes empty arguments for ever
RECURSIVE collect_macro_args(_, _, _)
collect_macro_args(lparen, toks, args) ==
  LET a == take_macro_arg(toks)
  IN  IF a.fail # NoFail THEN [tokens |-> a.tokens, args |-> args, fail |-> a.fail]
      ELSE IF a.tokens = << >>
        THEN [tokens |-> << >>, args |-> Append(args, a.arg),
              fail |-> Aborted("hang", "collect_macro_args: the loop never ends")]
      ELSE IF a.tokens[1].kind = "Comma"
        THEN collect_macro_args(lparen, Tail(a.tokens), Append(args, a.arg))
      ELSE IF a.tokens[1].kind = "RParen"
        THEN [tokens |-> Tail(a.tokens), args |-> Append(args, a.arg), fail |-> NoFail]
      ELSE IF is_eol(a.tokens[1])
        THEN [tokens |-> Tail(a.tokens), args |-> Append(args, a.arg),
              fail |-> expected_delimiter(lparen, "macro call")]
      ELSE [tokens |-> Tail(a.tokens), args |-> Append(args, a.arg),
            fail |-> unexpected_token(a.tokens[1], "macro call")]

FunctionCall_NoSubstitution(set, c, over) ==
  IF c.fail # NoFail THEN [tokens |-> c.tokens, expanded |-> << >>, fail |-> c.fail]
  ELSE IF over # << >>
    THEN [tokens |-> c.tokens, expanded |-> << expand_macro_const(over[1].def) >>,
          fail |-> NoFail]
  ELSE [tokens |-> c.tokens, expanded |-> << >>,
        fail |-> Aborted("panic", "invalid macro call")]

\* expand_macro_once for a call: c is what collect_macro_args returned, over
\* what get_overload returned for the number of arguments
FunctionCall(set, c, over) ==
  IF c.fail # NoFail THEN [tokens |-> c.tokens, expanded |-> << >>, fail |-> c.fail]
  ELSE IF over # << >>
    THEN [tokens |-> c.tokens,
          expanded |-> << expand_macro_func(c.args, over[1].params, over[1].def) >>,
          fail |-> NoFail]
  ELSE [tokens |-> c.tokens, expanded |-> << >>,
        fail |-> Aborted("panic", "invalid macro call")]

\* expand_macro_once
expand_macro_once(toks, set) ==
  IF FirstIs(toks, {"LParen"}) /\ set.overloads # << >>
    THEN LET c == collect_macro_args(toks[1], Tail(toks), << >>)
         IN  FunctionCall(set, c, get_overload(set, Len(c.args)))
  ELSE IF set.constant # << >>
    THEN [tokens |-> toks, expanded |-> << expand_macro_const(set.constant[1]) >>,
          fail |-> NoFail]
  ELSE [tokens |-> toks, expanded |-> << >>, fail |-> NoFail]

\* the loop 'outer of expand_macro over the working stack, and its inner loop
\* over the tokens toks of the sequence on top
RECURSIVE Working(_, _, _, _)
RECURSIVE Scan(_, _, _, _, _)
Scan(token, table, working, out, toks) ==
  IF toks = << >>
    THEN Working(token, table, SubSeq(working, 1, Len(working) - 1), out)
  ELSE IF toks[1].kind = "Identifier" /\ toks[1].value \in DOMAIN table
    THEN LET e == expand_macro_once(Tail(toks), table[toks[1].value])
         IN  IF e.fail # NoFail THEN [out |-> out, fail |-> e.fail]
             ELSE IF e.expanded # << >>
               THEN Working(token, table,
                            Append([working EXCEPT ![Len(working)] = e.tokens],
                                   e.expanded[1]),
                            out)
             ELSE Scan(token, table, working, Append(out, toks[1]), Tail(toks))
  ELSE Scan(token, table, working, Append(out, toks[1]), Tail(toks))

Working_NoLimit(token, table, working, out) ==
  IF working = << >> THEN [out |-> out, fail |-> NoFail]
  ELSE IF Len(working) > RECURSION_LIMIT + 2
    THEN [out |-> out, fail |-> Aborted("hang", "expand_macro: the loop never ends")]
  ELSE Scan(token, table, working, out, working[Len(working)])

Working(token, table, working, out) ==
  IF working = << >> THEN [out |-> out, fail |-> NoFail]
  ELSE IF Len(working) > RECURSION_LIMIT
    THEN [out |-> out,
          fail |-> SyntaxError(token.span.start,
                               "recursion limit reached during expansion of macro '{}'",
                               token.value)]
  ELSE Scan(token, table, working, out, working[Len(working)])

\* expand_macro
expand_macro(token, toks, table) ==
  LET e == expand_macro_once(toks, table[token.value])
  IN  IF e.fail # NoFail THEN [tokens |-> e.tokens, out |-> << >>, fail |-> e.fail]
      ELSE IF e.expanded = << >>
        THEN [tokens |-> e.tokens, out |-> << token >>, fail |-> NoFail]
      ELSE [tokens |-> e.tokens] @@ Working(token, table, << e.expanded[1] >>, << >>)

\* one turn of the loop `while let Some(token) = take_one(tokens)` of
\* preprocess_tokens; added is the macro a %define handed to add_macro
preprocess_token(toks, table, out) ==
  IF toks[1].kind = "PreProcessor"
    THEN (IF Tail(toks[1].value) = << "d", "e", "f", "i", "n", "e" >>
            THEN LET d == preprocess_define(Tail(toks))
                 IN  [tokens |-> d.tokens,
                      defs |-> IF d.fail = NoFail /\ d.def # << >>
                                 THEN add_macro(table, d.def[1]) ELSE table,
                      out_tokens |-> out, fail |-> d.fail,
                      added |-> IF d.fail = NoFail THEN d.def ELSE << >>]
            ELSE [tokens |-> Tail(toks), defs |-> table, out_tokens |-> out,
                  fail |-> NoFail, added |-> << >>])
  ELSE IF toks[1].kind = "Identifier" /\ toks[1].value \in DOMAIN table
    THEN LET e == expand_macro(toks[1], Tail(toks), table)
         IN  [tokens |-> e.tokens, defs |-> table, out_tokens |-> out \o e.out,
              fail |-> e.fail, added |-> << >>]
  ELSE [tokens |-> Tail(toks), defs |-> table,
        out_tokens |-> IF toks[1].kind = "Comment" THEN out ELSE Append(out, toks[1]),
        fail |-> NoFail, added |-> << >>]

(* ----------------------------------------------------------------------- *)
(* The assembler: assemble                                                 *)
(* ----------------------------------------------------------------------- *)

\* TokenKind::from_raw_token is None for these kinds
NotTokens == {"PreProcessor", "Whitespace", "Comment", "Error", "skip"}

process_raw_tokens(raw) == SelectSeq(raw, LAMBDA t : t.kind \notin NotTokens)

assembler_pass_one(toks) == << >>

assembler_pass_two(ir) == << >>

\* assemble: the bytes of the second pass are dropped, Ok(vec![]) is returned
assemble(raw) ==
  LET bytes == assembler_pass_two(assembler_pass_one(process_raw_tokens(raw)))
  IN  [kind |-> "Ok", bytes |-> << >>]

(* ----------------------------------------------------------------------- *)
(* The assembler run on a text: lex_tokens, preprocess, assemble           *)
(* ----------------------------------------------------------------------- *)

\* the line `%define X X`
DefineX ==
  << "%", "d", "e", "f", "i", "n", "e", " ", "X", " ", "X", "\n" >>

\* the line `X`
UseX ==
  << "X", "\n" >>

\* the line `%define add(a) ((a) + 1)`
DefineAdd1 ==
  << "%", "d", "e", "f", "i", "n", "e", " ", "a", "d", "d", "(", "a", ")", " ", "(",
     "(", "a", ")", " ", "+", " ", "1", ")", "\n" >>

\* the line `%define add(a, b) (add(a) + b)`
DefineAdd2 ==
  << "%", "d", "e", "f", "i", "n", "e", " ", "a", "d", "d", "(", "a", ",", " ", "b",
     ")", " ", "(", "a", "d", "d", "(", "a", ")", " ", "+", " ", "b", ")", "\n" >>

\* the line `add(2, 3)`
CallAdd23 ==
  << "a", "d", "d", "(", "2", ",", " ", "3", ")", "\n" >>

\* the line `add(3, (2))`
CallAdd3P2 ==
  << "a", "d", "d", "(", "3", ",", " ", "(", "2", ")", ")", "\n" >>

\* the line `%define add(b) b`
RedefineAdd1 ==
  << "%", "d", "e", "f", "i", "n", "e", " ", "a", "d", "d", "(", "b", ")", " ", "b",
     "\n" >>

\* the line `%define add 5`
DefineAddConst ==
  << "%", "d", "e", "f", "i", "n", "e", " ", "a", "d", "d", " ", "5", "\n" >>

\* the line `add(1, 2, 3)`
CallAdd123 ==
  << "a", "d", "d", "(", "1", ",", " ", "2", ",", " ", "3", ")", "\n" >>

\* the line `%define f() 7`
DefineF0 ==
  << "%", "d", "e", "f", "i", "n", "e", " ", "f", "(", ")", " ", "7", "\n" >>

\* the line `f()`
CallF0 ==
  << "f", "(", ")", "\n" >>

\* the line `nop`
Nop ==
  << "n", "o", "p", "\n" >>

Lines ==
  { DefineX,
    UseX,
    DefineAdd1,
    DefineAdd2,
    CallAdd23,
    CallAdd3P2,
    RedefineAdd1,
    DefineAddConst,
    CallAdd123,
    DefineF0,
    CallF0,
    Nop }

\* the characters of the short texts
Alphabet == {"a", "1", "%", " ", "\n", "\\", ";", "(", "<", "\""}

\* the texts of at most n lines of Lines
RECURSIVE Programs(_)
Programs(n) ==
  IF n = 0 THEN {<< >>}
  ELSE Programs(n - 1) \cup {p \o l : p \in Programs(n - 1), l \in Lines}

\* the texts of at most n characters of Alphabet
RECURSIVE Texts(_)
Texts(n) ==
  IF n = 0 THEN {<< >>}
  ELSE Texts(n - 1) \cup {Append(t, c) : t \in Texts(n - 1), c \in Alphabet}

Sources == Programs(MaxLines) \cup Texts(MaxText)

\* the cpu plays no part
NoCpu ==
  /\ acc = 0 /\ x = 0 /\ y = 0 /\ sp = 0 /\ pc = 0 /\ status = 0
  /\ cycle = 0 /\ index = 0 /\ ctx = NewContext /\ pipeline = None
  /\ rom = [entry |-> 4096, b0 |-> 234, b1 |-> 2, b2 |-> 32]
  /\ mem = [a \in {} |-> 0]
  /\ failed = "none"
  /\ bus = << >> /\ peak = 0 /\ trace = << >> /\ cur = NoInstr
  /\ delta = 0 /\ last = "new" /\ instrs = 0 /\ resets = 0 /\ resetFrom = None

\* SourceMap::add_from_string with one of the texts
InitAsm ==
  /\ NoCpu
  /\ source \in Sources
  /\ raw_tokens = << >> /\ tokens = << >>
  /\ defs = [n \in {} |-> 0] /\ out_tokens = << >>
  /\ result = NoResult /\ image = [kind |-> "none", bytes |-> << >>]

cpuvars == << acc, x, y, sp, pc, status, cycle, index, ctx, pipeline, rom, mem,
              bus, peak, trace, cur, delta, instrs, resets, resetFrom >>

\* file.lex_tokens()
LexTokens ==
  /\ last = "new"
  /\ raw_tokens' = lex_tokens(source)
  /\ last' = "lex"
  /\ UNCHANGED << cpuvars, failed, source, tokens, defs, out_tokens, result, image >>

\* preprocess(&raw_tokens, vec![]) up to the loop of preprocess_tokens
Preprocess ==
  /\ last = "lex"
  /\ tokens' = raw_tokens
  /\ defs' = [n \in {} |-> 0]
  /\ out_tokens' = << >>
  /\ last' = "preprocess"
  /\ UNCHANGED << cpuvars, failed, source, raw_tokens, result, image >>

\* one turn of the loop of preprocess_tokens; an Err ends preprocess, a
\* panic the process
PreprocessToken ==
  /\ last \in {"preprocess", "token"}
  /\ failed = "none" /\ result.kind = "none"
  /\ tokens # << >>
  /\ \E r \in {preprocess_token(tokens, defs, out_tokens)} :
       /\ tokens' = r.tokens
       /\ defs' = r.defs
       /\ out_tokens' = r.out_tokens
       /\ failed' = IF r.fail.kind \in {"panic", "hang"} THEN r.fail.reason ELSE "none"
       /\ result' = [kind |-> IF r.fail.kind = "Err" THEN "Err" ELSE "none",
                      at |-> r.fail.at, reason |-> IF r.fail.kind = "Err" THEN r.fail.reason ELSE "",
                      value |-> r.fail.value, added |-> r.added]
  /\ last' = "token"
  /\ UNCHANGED << cpuvars, source, raw_tokens, image >>

\* the loop of preprocess_tokens is over: Ok(out_tokens)
PreprocessReturn ==
  /\ last \in {"preprocess", "token"}
  /\ failed = "none" /\ result.kind = "none"
  /\ tokens = << >>
  /\ result' = [result EXCEPT !.kind = "Ok", !.added = << >>]
  /\ last' = "return"
  /\ UNCHANGED << cpuvars, failed, source, raw_tokens, tokens, defs, out_tokens, image >>

\* assemble(&out_tokens)
Assemble ==
  /\ last = "return"
  /\ image' = assemble(out_tokens)
  /\ last' = "assemble"
  /\ UNCHANGED << cpuvars, failed, source, raw_tokens, tokens, defs, out_tokens, result >>

NextAsm == LexTokens \/ Preprocess \/ PreprocessToken \/ PreprocessReturn \/ Assemble

SpecAsm == InitAsm /\ [][NextAsm]_vars

(* ----------------------------------------------------------------------- *)
(* Vocabulary of the properties                                            *)
(* ----------------------------------------------------------------------- *)

\* the decode-table entry of the instruction fetched last
CurEntry == Opcode(cur.opc)

\* the latest call ran the last micro-op of an instruction
Done == last = "exec" /\ pipeline = None /\ failed = "none"

\* cycles counted since the opcode fetch of the instruction fetched last
Consumed == cycle - cur.cycle0

\* the bytes following the opcode byte
Operand1Byte == MemAt(Machine, Wrap16(cur.addr + 1))

Operand2Byte == MemAt(Machine, Wrap16(cur.addr + 2))

ReadMnemonics ==
  {"ADC", "AND", "BIT", "CMP", "CPX", "CPY", "EOR", "LDA", "LDX", "LDY", "ORA", "SBC"}

BranchMnemonics == {"BCC", "BCS", "BEQ", "BMI", "BNE", "BPL", "BVC", "BVS"}

JumpMnemonics == {"JMP", "JSR", "RTS", "RTI"}

\* the index register the addressing mode names, as the fetch found it
IndexValue == IF CurEntry.mode \in {"AbsoluteX", "ZeroPageX", "IndirectX"} THEN cur.x ELSE cur.y

AbsoluteIndexedRead ==
  /\ cur.opc # None
  /\ CurEntry.mode \in {"AbsoluteX", "AbsoluteY"}
  /\ CurEntry.mnemonic \in ReadMnemonics

IndirectYRead ==
  /\ cur.opc # None
  /\ CurEntry.mode = "IndirectY"
  /\ CurEntry.mnemonic \in ReadMnemonics

\* the branch condition of the mnemonic holds in the flags the fetch found
BranchTaken ==
  LET m == CurEntry.mnemonic
      st == cur.status
  IN  \/ (m = "BCC" /\ ~GetFlag(st, CARRY))
      \/ (m = "BCS" /\ GetFlag(st, CARRY))
      \/ (m = "BNE" /\ ~GetFlag(st, ZERO))
      \/ (m = "BEQ" /\ GetFlag(st, ZERO))
      \/ (m = "BPL" /\ ~GetFlag(st, NEGATIVE))
      \/ (m = "BMI" /\ GetFlag(st, NEGATIVE))
      \/ (m = "BVC" /\ ~GetFlag(st, OVERFLOW))
      \/ (m = "BVS" /\ GetFlag(st, OVERFLOW))

\* the branch target lies in another page than the following instruction
BranchCrosses ==
  LET next == Wrap16(cur.addr + 2)
  IN  get_hi_byte(Wrap16(next + AsI8(Operand1Byte))) # get_hi_byte(next)

\* the penalty cycles of the instruction fetched last
Penalty ==
  IF AbsoluteIndexedRead
    THEN (IF Operand1Byte + IndexValue > 255 THEN 1 ELSE 0)
  ELSE IF IndirectYRead
    THEN (IF MemAt(Machine, Operand1Byte) + cur.y > 255 THEN 1 ELSE 0)
  ELSE IF CurEntry.mode = "Relative" /\ BranchTaken
    THEN (IF BranchCrosses THEN 2 ELSE 1)
  ELSE 0

\* the accesses of the instruction after its opcode and operand fetches
DataTrace == SubSeq(trace, CurEntry.bytes + 1, Len(trace))

\* number of reads of address a in the sequence t of accesses
ReadsOf(t, a) == Cardinality({i \in 1..Len(t) : t[i].rw = "r" /\ t[i].addr = a})

(* ----------------------------------------------------------------------- *)
(* Properties                                                              *)
(* ----------------------------------------------------------------------- *)

\* C1: whenever an instruction has run to its last micro-op, the cycle
\* counter has advanced since the opcode fetch by the table's cycle count of
\* the opcode plus the penalty (page-crossing indexed read, taken branch).
C1_CyclesMatchTable == Done => Consumed = CurEntry.cycles + Penalty

\* C2: every call of step_cycle that returns adds exactly 1 to the cycle
\* counter.
C2_EveryCallOneCycle ==
  (last \in {"fetch", "exec"} /\ failed = "none") => delta = 1

\* C3: a call of step_cycle makes at most one bus access, and that access is
\* the latest entry of the bus trace.
C3_AtMostOneAccess ==
  last \in {"fetch", "exec"} =>
    /\ Len(bus) <= 1
    /\ Len(bus) = 1 => (Len(trace) >= 1 /\ trace[Len(trace)] = bus[1])

\* C3 witness: a call that made one bus access, a write
C3_Witness == last = "exec" /\ Len(bus) = 1 /\ bus[1].rw = "w"

\* C4: at an instruction boundary reached by running an instruction to its
\* last micro-op, the context stack is empty.
C4_BoundaryStackEmpty == Done => Len(ctx.stack) = 0

\* C5: the context stack never holds more than three bytes, in instructions
\* and in reset, and Context::push never finds the stack full.
C5_StackDepthBounded ==
  /\ peak <= 3
  /\ Len(ctx.stack) <= peak
  /\ failed # "ctx push: stack full"

\* C5 witness: an instruction in flight holding three bytes on the stack
C5_Witness == last = "exec" /\ pipeline # None /\ Len(ctx.stack) = 3

\* C6: when an instruction other than a branch, JMP, JSR, RTS or RTI has
\* completed, PC is the address of its opcode plus the table's byte length.
C6_PcAdvancesByLength ==
  (Done /\ CurEntry.mnemonic \notin BranchMnemonics \cup JumpMnemonics)
    => pc = Wrap16(cur.addr + CurEntry.bytes)

\* C7: execution fails only by fetching an opcode that has no sequence.
C7_OnlyInvalidOpcodeFails ==
  failed # "none" => (failed = "invalid opcode" /\ last = "fetch" /\ ~Mapped(cur.opc))

\* C8: a fetch of a byte without a sequence fails with the invalid-opcode
\* error and installs no pipeline; a fetch of a byte with a sequence installs
\* that sequence at index 0, resets the context and adds one cycle.
C8_FetchDecodes ==
  last = "fetch" =>
    IF Mapped(cur.opc)
      THEN /\ failed = "none"
           /\ pipeline = cur.opc
           /\ index = 0
           /\ ctx = NewContext
           /\ delta = 1
      ELSE /\ failed = "invalid opcode"
           /\ pipeline = None

\* C8 witness: the fetch after a completed instruction met an unmapped byte
C8_Witness == last = "fetch" /\ instrs >= 2 /\ failed = "invalid opcode"

\* C9: after reset PC is the little-endian word at 0xFFFC/0xFFFD, I and B
\* are set, the pipeline is absent, the index is 0 and the context is empty.
C9_ResetState ==
  last = "reset" =>
    /\ pc = MemAt(Machine, 65532) + 256 * MemAt(Machine, 65533)
    /\ GetFlag(status, INTERRUPT)
    /\ GetFlag(status, BREAK)
    /\ pipeline = None
    /\ index = 0
    /\ ctx.stack = << >>
    /\ failed = "none"

\* C9 witness: a reset that interrupted an instruction in flight
C9_Witness == last = "reset" /\ resetFrom # None /\ pc = rom.entry

StoreMnemonics == {"STA", "STX", "STY"}

ZeroPageIndexedAccess ==
  /\ cur.opc # None
  /\ CurEntry.mode \in {"ZeroPageX", "ZeroPageY"}
  /\ CurEntry.mnemonic \in ReadMnemonics \cup StoreMnemonics

\* C11: a zero-page indexed read or store does not fail, every data access
\* it makes lies in page 0, and once complete it has taken 4 cycles and made
\* exactly one data access, at (base + index) mod 256: a read for a read
\* instruction, a write for a store.
C11_ZeroPageIndexedWraps ==
  ZeroPageIndexedAccess =>
    /\ failed = "none"
    /\ \A i \in 1..Len(trace) : i > CurEntry.bytes => trace[i].addr < 256
    /\ Done =>
         /\ Consumed = 4
         /\ Len(DataTrace) = 1
         /\ DataTrace[1].addr = (Operand1Byte + IndexValue) % 256
         /\ DataTrace[1].rw = IF CurEntry.mnemonic \in StoreMnemonics THEN "w" ELSE "r"

\* C11 witness: a completed zero-page indexed read whose base + index
\* exceeds 255
C11_Witness ==
  /\ Done /\ ZeroPageIndexedAccess
  /\ CurEntry.mnemonic \in ReadMnemonics
  /\ Operand1Byte + IndexValue > 255

\* the instruction fetched last is JMP (indirect)
JumpIndirect == cur.opc # None /\ CurEntry.mnemonic = "JMP" /\ CurEntry.mode = "Indirect"

Branch == cur.opc # None /\ CurEntry.mode = "Relative"

\* the address of the instruction following the one fetched last
Following == Wrap16(cur.addr + CurEntry.bytes)

\* C13: when a branch has completed, PC is the address of the following
\* instruction plus the sign-extended offset (mod 2^16) if the branch was
\* taken, and the address of the following instruction if it was not.
C13_BranchTarget ==
  (Done /\ Branch) =>
    pc = IF BranchTaken THEN Wrap16(Following + AsI8(Operand1Byte)) ELSE Following

\* C14: a completed branch has taken 2 cycles if not taken, 3 if taken
\* within the page of the following instruction, 4 if taken across a page.
C14_BranchCycles ==
  (Done /\ Branch) =>
    Consumed = IF ~BranchTaken THEN 2 ELSE IF BranchCrosses THEN 4 ELSE 3

\* instructions that push to or pull from the hardware stack
PushMnemonics == {"PHA", "PHP"}

PullMnemonics == {"PLA", "PLP"}

StackMnemonics == PushMnemonics \cup PullMnemonics \cup {"JSR", "RTS", "RTI"}

\* the i-th access since the opcode fetch is a stack access: a write of JSR,
\* or any access after the opcode fetch of a one-byte stack instruction
StackAccess(i) ==
  IF CurEntry.mnemonic = "JSR" THEN trace[i].rw = "w" ELSE i > 1

\* C15: every hardware-stack access of a push, pull, JSR, RTS or RTI lies in
\* 0x0100..0x01FF; a push writes at 0x0100 | SP for the SP it found (SP is
\* one less afterwards) and a pull reads at 0x0100 | SP for the SP it left.
C15_StackInPageOne ==
  (cur.opc # None /\ CurEntry.mnemonic \in StackMnemonics) =>
    /\ \A i \in 1..Len(trace) : StackAccess(i) => trace[i].addr \in 256..511
    /\ (Done /\ CurEntry.mnemonic \in PushMnemonics) =>
         /\ Len(DataTrace) = 1
         /\ DataTrace[1].rw = "w"
         /\ DataTrace[1].addr = 256 + Wrap8(sp + 1)
    /\ (Done /\ CurEntry.mnemonic \in PullMnemonics) =>
         /\ Len(DataTrace) = 1
         /\ DataTrace[1].rw = "r"
         /\ DataTrace[1].addr = 256 + sp

\* read instructions that write a register
LoadMnemonics == {"LDA", "LDX", "LDY", "AND", "ORA", "EOR", "ADC", "SBC"}

\* the register the instruction fetched last writes, as it is now
Written ==
  IF CurEntry.mnemonic = "LDX" THEN x
  ELSE IF CurEntry.mnemonic = "LDY" THEN y
  ELSE acc

\* C16: when a read instruction that writes a register has completed, Z is
\* set iff the register holds 0 and N is set iff bit 7 of the register is 1.
C16_LoadSetsZN ==
  (Done /\ CurEntry.mnemonic \in LoadMnemonics) =>
    /\ GetFlag(status, ZERO) <=> Written = 0
    /\ GetFlag(status, NEGATIVE) <=> Written >= 128

\* the carry flag the body called last found, as 0 or 1
CarryIn == IF GetFlag(cur.status, CARRY) THEN 1 ELSE 0

\* C17: after adc_impl, A is (A + M + C) mod 256 and the carry flag is set
\* iff A + M + C > 255, for the accumulator A, operand M and carry C that
\* the call found.
C17_AdcSumAndCarry ==
  (last = "call" /\ cur.f = "adc") =>
    /\ failed = "none"
    /\ acc = (cur.acc + cur.operand + CarryIn) % 256
    /\ GetFlag(status, CARRY) <=> cur.acc + cur.operand + CarryIn > 255

\* C17 witness: an addition whose carry out comes from adding the carry in
C17_Witness ==
  /\ last = "call" /\ cur.f = "adc"
  /\ cur.acc + cur.operand = 255 /\ CarryIn = 1
  /\ acc = 0

\* bit 7 of a byte
Sign(v) == v \div 128

\* C18: after adc_impl, V is set iff the accumulator and the operand the
\* call found have the same sign bit and the sign bit of the result differs
\* from it; 0x7F + 0x01 with carry clear gives 0x80 with C = 0, V = 1,
\* N = 1, Z = 0.
C18_AdcOverflow ==
  (last = "call" /\ cur.f = "adc") =>
    /\ GetFlag(status, OVERFLOW) <=>
         (Sign(cur.acc) = Sign(cur.operand) /\ Sign(acc) # Sign(cur.acc))
    /\ (cur.acc = 127 /\ cur.operand = 1 /\ CarryIn = 0) =>
         /\ acc = 128
         /\ ~GetFlag(status, CARRY)
         /\ GetFlag(status, OVERFLOW)
         /\ GetFlag(status, NEGATIVE)
         /\ ~GetFlag(status, ZERO)

Before == [acc |-> cur.acc, x |-> cur.x, y |-> cur.y, sp |-> cur.sp]

\* the registers A, X, Y, SP now
Now == [acc |-> acc, x |-> x, y |-> y, sp |-> sp]

\* C20: when a transfer instruction has completed, its destination holds
\* the value its source had and the other registers among A, X, Y, SP are
\* unchanged: TAX A->X, TAY A->Y, TSX SP->X, TXA X->A, TXS X->SP, TYA Y->A.
C20_TransfersCopy ==
  Done =>
    /\ CurEntry.mnemonic = "TAX" => Now = [Before EXCEPT !.x = cur.acc]
    /\ CurEntry.mnemonic = "TAY" => Now = [Before EXCEPT !.y = cur.acc]
    /\ CurEntry.mnemonic = "TSX" => Now = [Before EXCEPT !.x = cur.sp]
    /\ CurEntry.mnemonic = "TXA" => Now = [Before EXCEPT !.acc = cur.x]
    /\ CurEntry.mnemonic = "TXS" => Now = [Before EXCEPT !.sp = cur.x]
    /\ CurEntry.mnemonic = "TYA" => Now = [Before EXCEPT !.acc = cur.y]

\* the machine after the current step
MachineNext ==
  [acc |-> acc', x |-> x', y |-> y', sp |-> sp', pc |-> pc', status |-> status',
   cycle |-> cycle', index |-> index', ctx |-> ctx', pipeline |-> pipeline',
   rom |-> rom', mem |-> mem', failed |-> failed', bus |-> bus', peak |-> peak']

\* the machine after the call of step_cycle that follows the machine t
\* returned by the previous one, as long as the pipeline is present
RECURSIVE Repeated(_, _)
Continued(t, n) ==
  IF t.failed # "none" \/ t.pipeline = None \/ n <= 1 THEN t ELSE Repeated(t, n - 1)

\* the machine after calling step_cycle on s repeatedly, until the pipeline
\* is absent (at most n calls)
Repeated(s, n) == Continued(Cycle(s), n)

\* C21: a call of step_instruction that returns leaves the pipeline absent,
\* and it leaves the machine (registers, flags, memory, cycle counter, bus
\* accesses made) as calling step_cycle repeatedly until the pipeline is
\* absent does: from a boundary that is one fetch and the whole sequence,
\* mid-instruction it is the rest of the sequence and no fetch.
C21_StepInstructionIsRepeatedStepCycle ==
  [][last' = "instr" =>
       /\ MachineNext = Repeated(Machine, MaxCalls)
       /\ failed' = "none" => pipeline' = None
       /\ (pipeline # None) => cur' = cur]_vars

\* C21 witness: step_instruction was called in the middle of an instruction
\* and has finished it
C21_Witness ==
  /\ last = "instr" /\ failed = "none" /\ pipeline = None
  /\ Len(bus) < Len(trace)

(* ----------------------------------------------------------------------- *)
(* Vocabulary of the properties of the assembler                           *)
(* ----------------------------------------------------------------------- *)

\* the text of a sequence of tokens
RECURSIVE Text(_)
Text(toks) == IF toks = << >> THEN << >> ELSE toks[1].value \o Text(Tail(toks))

\* the text of a macro definition
DefText(def) == Text([k \in DOMAIN def |-> def[k].token])

\* the text t begins with the text p
StartsWith(t, p) == Len(p) <= Len(t) /\ SubSeq(t, 1, Len(p)) = p

\* this step is a turn of the loop of preprocess_tokens
Turn == last \in {"preprocess", "token"} /\ last' = "token"

\* the overloads of the macro set of name, as a set
Overloads(name) ==
  IF name \in DOMAIN defs
    THEN {defs[name].overloads[i] : i \in DOMAIN defs[name].overloads}
    ELSE {}

\* add(a) = ((a) + 1) and add(a, b) = (add(a) + b) are defined
AddDefined ==
  /\ \E o \in Overloads(<< "a", "d", "d" >>) : o.params = << <<"a">> >> /\ DefText(o.def) = << "(", "(", "a", ")", " ", "+", " ", "1", ")" >>
  /\ \E o \in Overloads(<< "a", "d", "d" >>) :
       o.params = << <<"a">>, <<"b">> >> /\ DefText(o.def) = << "(", "a", "d", "d", "(", "a", ")", " ", "+", " ", "b", ")" >>

\* calls of add with two arguments, and the text of each argument
AddCalls ==
  { [call |-> << "a", "d", "d", "(", "2", ",", " ", "3", ")" >>, a |-> << "2" >>, b |-> << "3" >>],
    [call |-> << "a", "d", "d", "(", "3", ",", " ", "(", "2", ")", ")" >>, a |-> << "3" >>, b |-> << "(", "2", ")" >>] }

\* C22: with add(a) = ((a) + 1) and add(a, b) = (add(a) + b) defined, the
\* call add(x, y) is replaced by (((x) + 1) + y): the overload with two
\* parameters is taken, each parameter gives way to the tokens of its
\* argument, and the add(x) of the result is expanded in turn; add(2, 3)
\* gives (((2) + 1) + 3).
C22_CallExpandsByArity ==
  [][\A c \in AddCalls :
       (Turn /\ AddDefined /\ StartsWith(Text(tokens), c.call)) =>
         /\ failed' = "none" /\ result'.kind = "none"
         /\ Text(out_tokens') =
              Text(out_tokens) \o << "(", "(", "(" >> \o c.a
              \o << ")", " ", "+", " ", "1", ")", " ", "+", " " >> \o c.b \o << ")" >>
         /\ Text(tokens) = c.call \o Text(tokens')]_vars

\* C22 witness: the program of the two definitions and add(2, 3) has been
\* preprocessed
C22_Witness ==
  /\ last = "return" /\ result.kind = "Ok"
  /\ source = DefineAdd1 \o DefineAdd2 \o CallAdd23
  /\ Text(out_tokens) = << "(", "(", "(", "2", ")", " ", "+", " ", "1", ")", " ", "+", " ", "3", ")", "\n" >>

\* X is defined as X
SelfDefined ==
  /\ << "X" >> \in DOMAIN defs
  /\ defs[<< "X" >>].constant # << >>
  /\ DefText(defs[<< "X" >>].constant[1]) = << "X" >>

\* C23: with X defined as X, expanding a use of X ends preprocess with the
\* error 'recursion limit reached during expansion of macro X', located at
\* that use; the process neither aborts nor hangs.
C23_RecursionLimit ==
  [][(Turn /\ SelfDefined /\ FirstIs(tokens, {"Identifier"})
        /\ tokens[1].value = << "X" >>) =>
       /\ failed' = "none"
       /\ result'.kind = "Err"
       /\ result'.reason = "recursion limit reached during expansion of macro '{}'"
       /\ result'.value = << "X" >>
       /\ result'.at = tokens[1].span.start
       /\ At(source, result'.at + 1) = "X"
       /\ lookup_by_index(source, result'.at).column = 1]_vars

\* C23 witness: preprocess has returned the error for a use of X on a line
\* after the first
C23_Witness ==
  /\ result.kind = "Err" /\ result.value = << "X" >> /\ failed = "none"
  /\ lookup_by_index(source, result.at).line > 2

\* the macro set of name before anything is defined for it
SetOf(table, name) == IF name \in DOMAIN table THEN table[name] ELSE MacroSet(name)

\* the overloads of the set with n parameters
OfArity(set, n) ==
  {i \in DOMAIN set.overloads : Len(set.overloads[i].params) = n}

\* C24: a macro set never holds two function-like definitions with the same
\* number of parameters, and a %define that adds a macro makes it the
\* definition of its form (the constant form, or the function-like form of
\* its number of parameters) and leaves every other form, and every other
\* name, as it was.
C24_OneDefinitionPerForm ==
  /\ [](\A name \in DOMAIN defs : \A n \in 0..3 :
          Cardinality(OfArity(defs[name], n)) <= 1)
  /\ [][(Turn /\ result'.added # << >>) =>
          LET m == result'.added[1]
              old == SetOf(defs, m.name)
              new == SetOf(defs', m.name)
          IN  /\ \A name \in DOMAIN defs : name # m.name => defs'[name] = defs[name]
              /\ IF m.params = << >>
                   THEN /\ new.constant = << m.def >>
                        /\ new.overloads = old.overloads
                   ELSE /\ new.constant = old.constant
                        /\ \A i \in OfArity(new, Len(m.params[1])) :
                             new.overloads[i] = [params |-> m.params[1], def |-> m.def]
                        /\ OfArity(new, Len(m.params[1])) # {}
                        /\ \A n \in 0..3 : n # Len(m.params[1]) =>
                             {new.overloads[i] : i \in OfArity(new, n)}
                               = {old.overloads[i] : i \in OfArity(old, n)}]_vars

\* C24 witness: add has a constant form and two function-like forms, and the
\* form with one parameter has been defined again
C24_Witness ==
  /\ last = "token" /\ result.added # << >>
  /\ result.added[1].params = << << <<"b">> >> >>
  /\ defs[<< "a", "d", "d" >>].constant # << >>
  /\ Len(defs[<< "a", "d", "d" >>].overloads) = 2
  /\ defs[<< "a", "d", "d" >>].overloads[1].params = << <<"b">> >>

\* C25: a call of a function-like macro with a number of arguments no
\* overload has ends preprocess with an Err; the process does not abort.
C25_NoOverloadIsAnError ==
  [][(Turn /\ Overloads(<< "a", "d", "d" >>) # {} /\ StartsWith(Text(tokens), << "a", "d", "d", "(", "1", ",", " ", "2", ",", " ", "3", ")" >>)
        /\ \A o \in Overloads(<< "a", "d", "d" >>) : Len(o.params) # 3) =>
       (failed' = "none" /\ result'.kind = "Err")]_vars

\* C26: with f() defined as 7, the call f() is replaced by 7.
C26_ZeroParameters ==
  [][(Turn /\ StartsWith(Text(tokens), << "f", "(", ")" >>)
        /\ \E o \in Overloads(<< "f" >>) : o.params = << >> /\ DefText(o.def) = << "7" >>) =>
       /\ failed' = "none" /\ result'.kind = "none"
       /\ Text(out_tokens') = Text(out_tokens) \o << "7" >>]_vars

\* C27: assemble returns the bytes of the program: for the text of the one
\* instruction nop, the byte 0xEA.
C27_AssembleReturnsImage ==
  (last = "assemble" /\ source = Nop) =>
    (image.kind = "Ok" /\ image.bytes = << 234 >>)

\* the positions of the text inside the span of a token
Covered(toks) ==
  {p \in 1..Len(source) :
     \E k \in DOMAIN toks : toks[k].span.start < p /\ p <= toks[k].span.end}

\* the characters of the text at the positions in S, in order
RECURSIVE Kept(_, _, _)
Kept(src, p, S) ==
  IF p > Len(src) THEN << >>
  ELSE (IF p \in S THEN << src[p] >> ELSE << >>) \o Kept(src, p + 1, S)

\* C28 as stated: the spans of the raw tokens, put together in order, are
\* the text.
C28_SpansAreTheText == last = "lex" => Text(raw_tokens) = source

\* C28 amended: the spans of the raw tokens lie in the text in order without
\* overlap, each token's text is the text of its span, and a character no
\* span covers belongs to a backslash-newline pair no span covers; so the
\* spans put together are the text without those pairs, and the whole text
\* when there is none.
C28_SpansAreTheTextButSkipped ==
  last = "lex" =>
    /\ \A k \in DOMAIN raw_tokens :
         /\ 0 <= raw_tokens[k].span.start
         /\ raw_tokens[k].span.start < raw_tokens[k].span.end
         /\ raw_tokens[k].span.end <= Len(source)
         /\ raw_tokens[k].value
              = SubSeq(source, raw_tokens[k].span.start + 1, raw_tokens[k].span.end)
         /\ k > 1 => raw_tokens[k - 1].span.end <= raw_tokens[k].span.start
    /\ \A p \in (1..Len(source)) \ Covered(raw_tokens) :
         \/ /\ source[p] = "\\" /\ At(source, p + 1) = "\n"
            /\ p + 1 \notin Covered(raw_tokens)
         \/ /\ source[p] = "\n" /\ p > 1 /\ source[p - 1] = "\\"
            /\ p - 1 \notin Covered(raw_tokens)
    /\ Text(raw_tokens) = Kept(source, 1, Covered(raw_tokens))
    /\ (\A p \in 1..Len(source) : ~(source[p] = "\\" /\ At(source, p + 1) = "\n"))
         => Text(raw_tokens) = source

\* C28 witness: a text with tokens on both sides of a skipped
\* backslash-newline pair has been lexed
C28_Witness ==
  /\ last = "lex" /\ Len(raw_tokens) = 2 /\ Len(source) = 4
  /\ Covered(raw_tokens) = {1, 4}

\* C29: an Absolute,X or Absolute,Y read whose low-byte addition does not
\* carry (an index of 0 included) does not fail, takes 4 cycles and reads
\* its operand exactly once, at base + index.
C29_NoCrossRead ==
  (AbsoluteIndexedRead /\ Operand1Byte + IndexValue <= 255) =>
    /\ failed = "none"
    /\ Done =>
         /\ Consumed = 4
         /\ Len(DataTrace) = 1
         /\ ReadsOf(DataTrace, from_le_bytes(Operand1Byte, Operand2Byte) + IndexValue) = 1

\* C30: a JSR at address a takes 6 cycles, leaves SP two below its value and
\* PC at its operand; the RTS executed next takes 6 cycles and leaves SP two
\* above its value, which is the value before the JSR, and PC at
\* (a + 3) mod 2^16.
C30_CallReturns ==
  /\ (Done /\ cur.opc = JSR) =>
       /\ Consumed = 6
       /\ sp = Wrap8(cur.sp - 2)
       /\ pc = from_le_bytes(Operand1Byte, Operand2Byte)
  /\ (Done /\ cur.opc = RTS /\ instrs = 2) =>
       /\ Consumed = 6
       /\ sp = Wrap8(cur.sp + 2)
       /\ pc = Wrap16(rom.entry + 3)
  /\ (cur.opc \in {JSR, RTS}) => failed = "none"

(* ----------------------------------------------------------------------- *)
(* Read-modify-write instructions                                          *)
(* ----------------------------------------------------------------------- *)

ModifyMnemonics == {"ASL", "LSR", "ROL", "ROR", "INC", "DEC"}

ModifyModes == {"ZeroPage", "ZeroPageX", "Absolute", "AbsoluteX"}

\* the instruction fetched last is a read-modify-write instruction
ReadModifyWrite ==
  /\ cur.opc # None
  /\ CurEntry.mnemonic \in ModifyMnemonics
  /\ CurEntry.mode \in ModifyModes

\* the effective address of the instruction fetched last, from its operand
\* bytes and the X register the fetch found
ModifyAddress ==
  IF CurEntry.mode = "ZeroPage" THEN Operand1Byte
  ELSE IF CurEntry.mode = "ZeroPageX" THEN (Operand1Byte + cur.x) % 256
  ELSE IF CurEntry.mode = "Absolute" THEN from_le_bytes(Operand1Byte, Operand2Byte)
  ELSE Wrap16(from_le_bytes(Operand1Byte, Operand2Byte) + cur.x)

\* C31: a read-modify-write instruction (ASL, LSR, ROL, ROR, INC, DEC in
\* ZeroPage, ZeroPage,X, Absolute, Absolute,X) does not fail, and when it has
\* completed its data accesses are one read of the effective address followed
\* by one write to that same address, and nothing else.
C31_ReadThenWriteSameAddress ==
  ReadModifyWrite =>
    /\ failed = "none"
    /\ Done =>
         /\ Len(DataTrace) = 2
         /\ DataTrace[1].rw = "r" /\ DataTrace[1].addr = ModifyAddress
         /\ DataTrace[2].rw = "w" /\ DataTrace[2].addr = ModifyAddress

(* ----------------------------------------------------------------------- *)
(* (Indirect),Y reads and stores                                           *)
(* ----------------------------------------------------------------------- *)

\* the instruction fetched last is an (Indirect),Y read or store
IndirectYAccess ==
  /\ cur.opc # None
  /\ CurEntry.mode = "IndirectY"
  /\ CurEntry.mnemonic \in ReadMnemonics \cup StoreMnemonics

\* the base address bytes the zero-page operand z points at: low at z, high
\* at (z + 1) mod 256
BaseLo == MemAt(Machine, Operand1Byte)

BaseHi == MemAt(Machine, (Operand1Byte + 1) % 256)

\* C32: an (Indirect),Y read or store does not fail and its data access, the
\* last access of the instruction, is at (mem[z] + 256 * mem[(z+1) mod 256]
\* + Y) mod 2^16; a read costs 5 cycles, and one more exactly when mem[z] + Y
\* carries.
C32_IndirectYAddress ==
  IndirectYAccess =>
    /\ failed = "none"
    /\ Done =>
         /\ Len(DataTrace) >= 1
         /\ DataTrace[Len(DataTrace)].addr = Wrap16(BaseLo + 256 * BaseHi + cur.y)
         /\ DataTrace[Len(DataTrace)].rw =
              (IF CurEntry.mnemonic \in StoreMnemonics THEN "w" ELSE "r")
         /\ CurEntry.mnemonic \in ReadMnemonics =>
              Consumed = CurEntry.cycles + (IF BaseLo + cur.y > 255 THEN 1 ELSE 0)

(* ----------------------------------------------------------------------- *)
(* Accumulator addressing mode                                             *)
(* ----------------------------------------------------------------------- *)

\* the instruction fetched last is ASL, LSR, ROL or ROR on the accumulator
AccumulatorShift ==
  /\ cur.opc # None
  /\ CurEntry.mode = "Accumulator"

\* the byte the body of the instruction fetched last makes of the byte v,
\* called with the flags the fetch found
Modified(v) ==
  Func(CurEntry.func,
       [Machine EXCEPT !.ctx = [temp |-> 0, stack |-> << v >>],
                       !.status = cur.status, !.failed = "none"]).ctx.stack[1]

\* C33: when ASL, LSR, ROL or ROR in Accumulator mode has completed, A holds
\* the shifted or rotated value of the A the fetch found.
C33_AccumulatorStored ==
  (AccumulatorShift /\ Done) => acc = Modified(cur.acc)

(* ----------------------------------------------------------------------- *)
(* The rotate bodies on their own: rol_impl and ror_impl called with every *)
(* operand byte on the context stack and both values of the carry flag     *)
(* ----------------------------------------------------------------------- *)

RotateBodies == {"rol", "ror"}

InitRotate ==
  /\ acc = 0
  /\ \E m \in Byte : ctx = [temp |-> 0, stack |-> << m >>]
  /\ status \in BodyStatus
  /\ x = 0 /\ y = 0 /\ sp = 0 /\ pc = 0
  /\ cycle = 0 /\ index = 0 /\ pipeline = None
  /\ rom = [entry |-> 4096, b0 |-> 234, b1 |-> 2, b2 |-> 32]
  /\ mem = [a \in {} |-> 0]
  /\ failed = "none"
  /\ bus = << >> /\ peak = 1 /\ trace = << >> /\ cur = NoCall
  /\ delta = 0 /\ last = "new" /\ instrs = 0 /\ resets = 0 /\ resetFrom = None
  /\ NoAssembly

NextRotate == \E f \in RotateBodies : Call(f)

SpecRotate == InitRotate /\ [][NextRotate]_vars

\* the carry flag of a status byte as 0 or 1
CarryBit(st) == IF GetFlag(st, CARRY) THEN 1 ELSE 0

\* C34: ROL shifts left with the old carry entering bit 0 and the old bit 7
\* becoming the carry; ROR shifts right with the old carry entering bit 7
\* and the old bit 0 becoming the carry.
C34_RotateThroughCarry ==
  (last = "call" /\ cur.f \in RotateBodies) =>
    /\ failed = "none"
    /\ Len(ctx.stack) = 1
    /\ cur.f = "rol" =>
         /\ ctx.stack[1] = ((cur.operand * 2) % 256) + CarryBit(cur.status)
         /\ CarryBit(status) = cur.operand \div 128
    /\ cur.f = "ror" =>
         /\ ctx.stack[1] = (cur.operand \div 2) + 128 * CarryBit(cur.status)
         /\ CarryBit(status) = cur.operand % 2

(* ----------------------------------------------------------------------- *)
(* The assertions of the context stack                                     *)
(* ----------------------------------------------------------------------- *)

\* C35: no pop or peek made while running the sequence of a mapped opcode
\* finds the context stack short: the assertions of Context::pop and
\* Context::peek never fail.
C35_NoContextUnderflow ==
  (cur.opc # None /\ Mapped(cur.opc)) =>
    failed \notin {"ctx pop: stack empty", "ctx peek: out of range"}

(* ----------------------------------------------------------------------- *)
(* The status register after reset                                         *)
(* ----------------------------------------------------------------------- *)

\* C36: after reset, from any prior state, the status byte is exactly I|B:
\* C, Z, D, V and N are clear whatever they were before the reset.
C36_ResetClearsStatus == last = "reset" => status = INTERRUPT + BREAK

(* ----------------------------------------------------------------------- *)
(* The compare bodies on their own: cmp_impl, cpx_impl and cpy_impl called *)
(* with every register byte and every operand byte                         *)
(* ----------------------------------------------------------------------- *)

CompareBodies == {"cmp", "cpx", "cpy"}

\* status registers the compare bodies are called with: I and B as reset
\* leaves them, with C and V both clear and both set
CompareStatus == {INTERRUPT + BREAK, INTERRUPT + BREAK + CARRY + OVERFLOW}

\* A takes every byte; X and Y hold the bytes after it, so that the three
\* registers differ
InitCompare ==
  /\ \E r \in Byte : acc = r /\ x = (r + 1) % 256 /\ y = (r + 2) % 256
  /\ \E m \in Byte : ctx = [temp |-> 0, stack |-> << m >>]
  /\ status \in CompareStatus
  /\ sp = 0 /\ pc = 0
  /\ cycle = 0 /\ index = 0 /\ pipeline = None
  /\ rom = [entry |-> 4096, b0 |-> 234, b1 |-> 2, b2 |-> 32]
  /\ mem = [a \in {} |-> 0]
  /\ failed = "none"
  /\ bus = << >> /\ peak = 1 /\ trace = << >> /\ cur = NoCall
  /\ delta = 0 /\ last = "new" /\ instrs = 0 /\ resets = 0 /\ resetFrom = None
  /\ NoAssembly

NextCompare == \E f \in CompareBodies : Call(f)

SpecCompare == InitCompare /\ [][NextCompare]_vars

\* the register the compare body f reads, before the call
Compared(f) == IF f = "cmp" THEN acc ELSE IF f = "cpx" THEN x ELSE y

\* C37: CMP, CPX and CPY set C iff register >= operand (unsigned), set Z iff
\* they are equal, and leave A, X, Y and the V flag as they were.
C37_CompareFlags ==
  [][(last' = "call" /\ cur'.f \in CompareBodies) =>
       /\ failed' = "none"
       /\ GetFlag(status', CARRY) = (Compared(cur'.f) >= ctx.stack[1])
       /\ GetFlag(status', ZERO) = (Compared(cur'.f) = ctx.stack[1])
       /\ acc' = acc /\ x' = x /\ y' = y
       /\ GetFlag(status', OVERFLOW) = GetFlag(status, OVERFLOW)]_vars

(* ----------------------------------------------------------------------- *)
(* The assembler run on texts whose last line is not ended, and on macro   *)
(* bodies that end inside a call                                           *)
(* ----------------------------------------------------------------------- *)

MaxOpen == 3

\* the line `%define g add(`
DefineG ==
  << "%", "d", "e", "f", "i", "n", "e", " ", "g", " ", "a", "d", "d", "(", "\n" >>

\* the line `g`
UseG ==
  << "g", "\n" >>

OpenLines == { DefineAdd1, DefineG, UseG, Nop }

\* last lines without a newline: nothing, `add(1)`, `add(1`, `add(`,
\* `add(1, ` and `add((1`
OpenTails ==
  { << >>,
    << "a", "d", "d", "(", "1", ")" >>,
    << "a", "d", "d", "(", "1" >>,
    << "a", "d", "d", "(" >>,
    << "a", "d", "d", "(", "1", ",", " " >>,
    << "a", "d", "d", "(", "(", "1" >> }

\* the texts of at most n lines of OpenLines
RECURSIVE OpenPrograms(_)
OpenPrograms(n) ==
  IF n = 0 THEN {<< >>}
  ELSE OpenPrograms(n - 1) \cup {p \o l : p \in OpenPrograms(n - 1), l \in OpenLines}

OpenSources == {p \o t : p \in OpenPrograms(MaxOpen), t \in OpenTails}

InitOpen ==
  /\ NoCpu
  /\ source \in OpenSources
  /\ raw_tokens = << >> /\ tokens = << >>
  /\ defs = [n \in {} |-> 0] /\ out_tokens = << >>
  /\ result = NoResult /\ image = [kind |-> "none", bytes |-> << >>]

SpecOpen == InitOpen /\ [][NextAsm]_vars

\* C38: preprocess terminates on every token stream with a token list or an
\* error: no turn of its loop panics or runs for ever, each turn shortens
\* the slice still to be read, and so a call whose argument list is open
\* when the tokens end (end of input, end of a macro body) ends in an error.
C38_PreprocessTerminates ==
  /\ [](last \in {"preprocess", "token", "return"} => failed = "none")
  /\ [][last' = "token" => Len(tokens') < Len(tokens)]_vars

(* ----------------------------------------------------------------------- *)
(* struct Memory of the system crate (src/system/src/memory.rs): the store *)
(* behind the bus as main builds it, with the one device it registers.     *)
(* `mem` holds the bytes of Memory::data that differ from the 0 of         *)
(* Memory::new; `cur` holds the build and the latest write and read.       *)
(* ----------------------------------------------------------------------- *)

\* Memory::size as Memory::new sets it: usize::from(u16::MAX)
MemorySize == 65535

\* StdoutDevice::MMIO_RANGE
MMIO_RANGE == [start |-> 40960, end |-> 40961]

\* Memory::devices after main has registered the StdoutDevice
Devices == {MMIO_RANGE}

\* a build with overflow checks panics on u16 overflow, one without wraps
Builds == {"checked", "unchecked"}

\* get_device_or_none: the devices whose range overlaps address..address + 1
get_device_or_none(build, address) ==
  IF address + 1 > 65535 /\ build = "checked"
    THEN [fail |-> "attempt to add with overflow", devices |-> {}]
  ELSE LET end == (address + 1) % 65536
       IN  [fail |-> "none",
            devices |-> {d \in Devices : d.start < end /\ address < d.end}]

\* read_mem
read_mem(data, address) ==
  IF address <= MemorySize - 1
    THEN [fail |-> "none", value |-> IF address \in DOMAIN data THEN data[address] ELSE 0]
  ELSE [fail |-> "assertion failed: index <= self.size - 1", value |-> 0]

\* write_mem
write_mem(data, address, byte) ==
  IF address <= MemorySize - 1
    THEN [fail |-> "none", data |-> (address :> byte) @@ data]
  ELSE [fail |-> "assertion failed: index <= self.size - 1", data |-> data]

\* <Memory as Bus>::read; StdoutDevice::read returns 0
Memory_read(build, data, address) ==
  LET g == get_device_or_none(build, address)
  IN  IF g.fail # "none" THEN [fail |-> g.fail, value |-> 0]
      ELSE IF g.devices # {} THEN [fail |-> "none", value |-> 0]
      ELSE read_mem(data, address)

\* <Memory as Bus>::write: the device is written, and then the memory too
Memory_write(build, data, address, byte) ==
  LET g == get_device_or_none(build, address)
  IN  IF g.fail # "none" THEN [fail |-> g.fail, data |-> data]
      ELSE write_mem(data, address, byte)

\* addresses: both ends of the address space, page borders, the device, the
\* vectors
MemoryAddresses == {0, 255, 256, 4096, 40959, 40960, 40961, 65532, 65534, 65535}

MemoryBytes == {0, 1, 128, 255}

InitMemory ==
  /\ NoAssembly
  /\ acc = 0 /\ x = 0 /\ y = 0 /\ sp = 0 /\ pc = 0 /\ status = 0
  /\ cycle = 0 /\ index = 0 /\ ctx = NewContext /\ pipeline = None
  /\ rom = [entry |-> 4096, b0 |-> 234, b1 |-> 2, b2 |-> 32]
  /\ mem = [a \in {} |-> 0]
  /\ failed = "none"
  /\ bus = << >> /\ peak = 0 /\ trace = << >>
  /\ \E b \in Builds : cur = [build |-> b, addr |-> 0, data |-> 0, from |-> 0, value |-> 0]
  /\ delta = 0 /\ last = "new" /\ instrs = 0 /\ resets = 0 /\ resetFrom = None

\* mem.write(address, byte)
MemoryWrite ==
  /\ last = "new"
  /\ \E address \in MemoryAddresses, byte \in MemoryBytes :
       \E r \in {Memory_write(cur.build, mem, address, byte)} :
         /\ mem' = r.data
         /\ failed' = r.fail
         /\ cur' = [cur EXCEPT !.addr = address, !.data = byte]
  /\ last' = "write"
  /\ UNCHANGED << acc, x, y, sp, pc, status, cycle, index, ctx, pipeline, rom, bus,
                  peak, trace, delta, instrs, resets, resetFrom >>
  /\ UNCHANGED asmvars

\* mem.read(address)
MemoryRead ==
  /\ last = "write" /\ failed = "none"
  /\ \E address \in MemoryAddresses :
       \E r \in {Memory_read(cur.build, mem, address)} :
         /\ failed' = r.fail
         /\ cur' = [cur EXCEPT !.from = address, !.value = r.value]
  /\ last' = "read"
  /\ UNCHANGED << acc, x, y, sp, pc, status, cycle, index, ctx, pipeline, rom, mem, bus,
                  peak, trace, delta, instrs, resets, resetFrom >>
  /\ UNCHANGED asmvars

NextMemory == MemoryWrite \/ MemoryRead

SpecMemory == InitMemory /\ [][NextMemory]_vars

\* no device maps the address
NoDevice(address) == \A d \in Devices : ~(d.start <= address /\ address < d.end)

\* C39: for every address no device maps, 0xFFFF included, and every byte,
\* write(a, v) succeeds and the read(a) after it succeeds and returns v.
C39_WriteThenRead ==
  /\ (last = "write" /\ NoDevice(cur.addr)) => failed = "none"
  /\ (last = "read" /\ cur.from = cur.addr /\ NoDevice(cur.addr)) =>
       (failed = "none" /\ cur.value = cur.data)

(* ----------------------------------------------------------------------- *)
(* The assembler's instruction table (asm/src/instruction.rs)              *)
(* ----------------------------------------------------------------------- *)

\* Opcode { value, mode, bytes, cycles }
AsmOpcode(value, mode, bytes, cycles) ==
  [value |-> value, mode |-> mode, bytes |-> bytes, cycles |-> cycles]

\* Instruction { name, opcodes }
Instruction(name, opcodes) == [name |-> name, opcodes |-> opcodes]

\* static INSTRUCTIONS: phf::Map<&'static str, Instruction>
INSTRUCTIONS ==
  "adc" :> Instruction("adc", <<
       (* 69 *) AsmOpcode(105, "Immediate", 2, 2),
       (* 65 *) AsmOpcode(101, "ZeroPage", 2, 3),
       (* 75 *) AsmOpcode(117, "ZeroPageX", 2, 4),
       (* 6D *) AsmOpcode(109, "Absolute", 3, 4),
       (* 7D *) AsmOpcode(125, "AbsoluteX", 3, 4),
       (* 79 *) AsmOpcode(121, "AbsoluteY", 3, 4),
       (* 61 *) AsmOpcode(97, "IndirectX", 2, 6),
       (* 71 *) AsmOpcode(113, "IndirectY", 2, 5) >>) @@
  "and" :> Instruction("and", <<
       (* 29 *) AsmOpcode(41, "Immediate", 2, 2),
       (* 25 *) AsmOpcode(37, "ZeroPage", 2, 3),
       (* 35 *) AsmOpcode(53, "ZeroPageX", 2, 4),
       (* 2D *) AsmOpcode(45, "Absolute", 3, 4),
       (* 3D *) AsmOpcode(61, "AbsoluteX", 3, 4),
       (* 39 *) AsmOpcode(57, "AbsoluteY", 3, 4),
       (* 21 *) AsmOpcode(33, "IndirectX", 2, 6),
       (* 31 *) AsmOpcode(49, "IndirectY", 2, 5) >>) @@
  "asl" :> Instruction("asl", <<
       (* 0A *) AsmOpcode(10, "Accumulator", 1, 2),
       (* 06 *) AsmOpcode(6, "ZeroPage", 2, 5),
       (* 16 *) AsmOpcode(22, "ZeroPageX", 2, 6),
       (* 0E *) AsmOpcode(14, "Absolute", 3, 6),
       (* 1E *) AsmOpcode(30, "AbsoluteX", 3, 7) >>) @@
  "bcc" :> Instruction("bcc", <<
       (* 90 *) AsmOpcode(144, "Relative", 2, 2) >>) @@
  "bcs" :> Instruction("bcs", <<
       (* B0 *) AsmOpcode(176, "Relative", 2, 2) >>) @@
  "beq" :> Instruction("beq", <<
       (* F0 *) AsmOpcode(240, "Relative", 2, 2) >>) @@
  "bit" :> Instruction("bit", <<
       (* 24 *) AsmOpcode(36, "ZeroPage", 2, 3),
       (* 2C *) AsmOpcode(44, "Absolute", 3, 4) >>) @@
  "bmi" :> Instruction("bmi", <<
       (* 30 *) AsmOpcode(48, "Relative", 2, 2) >>) @@
  "bne" :> Instruction("bne", <<
       (* D0 *) AsmOpcode(208, "Relative", 2, 2) >>) @@
  "bpl" :> Instruction("bpl", <<
       (* 10 *) AsmOpcode(16, "Relative", 2, 2) >>) @@
  "brk" :> Instruction("brk", <<
       (* 00 *) AsmOpcode(0, "Implied", 1, 7) >>) @@
  "bvc" :> Instruction("bvc", <<
       (* 50 *) AsmOpcode(80, "Relative", 2, 2) >>) @@
  "bvs" :> Instruction("bvs", <<
       (* 70 *) AsmOpcode(112, "Relative", 2, 2) >>) @@
  "clc" :> Instruction("clc", <<
       (* 18 *) AsmOpcode(24, "Implied", 1, 2) >>) @@
  "cld" :> Instruction("cld", <<
       (* D8 *) AsmOpcode(216, "Implied", 1, 2) >>) @@
  "cli" :> Instruction("cli", <<
       (* 58 *) AsmOpcode(88, "Implied", 1, 2) >>) @@
  "clv" :> Instruction("clv", <<
       (* B8 *) AsmOpcode(184, "Implied", 1, 2) >>) @@
  "cmp" :> Instruction("cmp", <<
       (* C9 *) AsmOpcode(201, "Immediate", 2, 2),
       (* C5 *) AsmOpcode(197, "ZeroPage", 2, 3),
       (* D5 *) AsmOpcode(213, "ZeroPageX", 2, 4),
       (* CD *) AsmOpcode(205, "Absolute", 3, 4),
       (* DD *) AsmOpcode(221, "AbsoluteX", 3, 4),
       (* D9 *) AsmOpcode(217, "AbsoluteY", 3, 4),
       (* C1 *) AsmOpcode(193, "IndirectX", 2, 6),
       (* D1 *) AsmOpcode(209, "IndirectY", 2, 5) >>) @@
  "cpx" :> Instruction("cpx", <<
       (* E0 *) AsmOpcode(224, "Immediate", 2, 2),
       (* E4 *) AsmOpcode(228, "ZeroPage", 2, 3),
       (* EC *) AsmOpcode(236, "Absolute", 3, 4) >>) @@
  "cpy" :> Instruction("cpy", <<
       (* C0 *) AsmOpcode(192, "Immediate", 2, 2),
       (* C4 *) AsmOpcode(196, "ZeroPage", 2, 3),
       (* CC *) AsmOpcode(204, "Absolute", 3, 4) >>) @@
  "dec" :> Instruction("dec", <<
       (* C6 *) AsmOpcode(198, "ZeroPage", 2, 5),
       (* D6 *) AsmOpcode(214, "ZeroPageX", 2, 6),
       (* CE *) AsmOpcode(206, "Absolute", 3, 6),
       (* DE *) AsmOpcode(222, "AbsoluteX", 3, 7) >>) @@
  "dex" :> Instruction("dex", <<
       (* CA *) AsmOpcode(202, "Implied", 1, 2) >>) @@
  "dey" :> Instruction("dey", <<
       (* 88 *) AsmOpcode(136, "Implied", 1, 2) >>) @@
  "eor" :> Instruction("eor", <<
       (* 49 *) AsmOpcode(73, "Immediate", 2, 2),
       (* 45 *) AsmOpcode(69, "ZeroPage", 2, 3),
       (* 55 *) AsmOpcode(85, "ZeroPageX", 2, 4),
       (* 4D *) AsmOpcode(77, "Absolute", 3, 4),
       (* 5D *) AsmOpcode(93, "AbsoluteX", 3, 4),
       (* 59 *) AsmOpcode(89, "AbsoluteY", 3, 4),
       (* 41 *) AsmOpcode(65, "IndirectX", 2, 6),
       (* 51 *) AsmOpcode(81, "IndirectY", 2, 5) >>) @@
  "inc" :> Instruction("inc", <<
       (* E6 *) AsmOpcode(230, "ZeroPage", 2, 5),
       (* F6 *) AsmOpcode(246, "ZeroPageX", 2, 6),
       (* EE *) AsmOpcode(238, "Absolute", 3, 6),
       (* FE *) AsmOpcode(254, "AbsoluteX", 3, 7) >>) @@
  "inx" :> Instruction("inx", <<
       (* E8 *) AsmOpcode(232, "Implied", 1, 2) >>) @@
  "iny" :> Instruction("iny", <<
       (* C8 *) AsmOpcode(200, "Implied", 1, 2) >>) @@
  "jmp" :> Instruction("jmp", <<
       (* 4C *) AsmOpcode(76, "Absolute", 3, 3),
       (* 6C *) AsmOpcode(108, "Indirect", 3, 5) >>) @@
  "jsr" :> Instruction("jsr", <<
       (* 20 *) AsmOpcode(32, "Absolute", 3, 6) >>) @@
  "lda" :> Instruction("lda", <<
       (* A9 *) AsmOpcode(169, "Immediate", 2, 2),
       (* A5 *) AsmOpcode(165, "ZeroPage", 2, 3),
       (* B5 *) AsmOpcode(181, "ZeroPageX", 2, 4),
       (* AD *) AsmOpcode(173, "Absolute", 3, 4),
       (* BD *) AsmOpcode(189, "AbsoluteX", 3, 4),
       (* B9 *) AsmOpcode(185, "AbsoluteY", 3, 4),
       (* A1 *) AsmOpcode(161, "IndirectX", 2, 6),
       (* B1 *) AsmOpcode(177, "IndirectY", 2, 5) >>) @@
  "ldx" :> Instruction("ldx", <<
       (* A2 *) AsmOpcode(162, "Immediate", 2, 2),
       (* A6 *) AsmOpcode(166, "ZeroPage", 2, 3),
       (* B6 *) AsmOpcode(182, "ZeroPageY", 2, 4),
       (* AE *) AsmOpcode(174, "Absolute", 3, 4),
       (* BE *) AsmOpcode(190, "AbsoluteY", 3, 4) >>) @@
  "ldy" :> Instruction("ldy", <<
       (* A0 *) AsmOpcode(160, "Immediate", 2, 2),
       (* A4 *) AsmOpcode(164, "ZeroPage", 2, 3),
       (* B4 *) AsmOpcode(180, "ZeroPageX", 2, 4),
       (* AC *) AsmOpcode(172, "Absolute", 3, 4),
       (* BC *) AsmOpcode(188, "AbsoluteX", 3, 4) >>) @@
  "lsr" :> Instruction("lsr", <<
       (* 4A *) AsmOpcode(74, "Accumulator", 1, 2),
       (* 46 *) AsmOpcode(70, "ZeroPage", 2, 5),
       (* 56 *) AsmOpcode(86, "ZeroPageX", 2, 6),
       (* 4E *) AsmOpcode(78, "Absolute", 3, 6),
       (* 5E *) AsmOpcode(94, "AbsoluteX", 3, 7) >>) @@
  "nop" :> Instruction("nop", <<
       (* EA *) AsmOpcode(234, "Implied", 1, 2) >>) @@
  "ora" :> Instruction("ora", <<
       (* 09 *) AsmOpcode(9, "Immediate", 2, 2),
       (* 05 *) AsmOpcode(5, "ZeroPage", 2, 3),
       (* 15 *) AsmOpcode(21, "ZeroPageX", 2, 4),
       (* 0D *) AsmOpcode(13, "Absolute", 3, 4),
       (* 1D *) AsmOpcode(29, "AbsoluteX", 3, 4),
       (* 19 *) AsmOpcode(25, "AbsoluteY", 3, 4),
       (* 01 *) AsmOpcode(1, "IndirectX", 2, 6),
       (* 11 *) AsmOpcode(17, "IndirectY", 2, 5) >>) @@
  "pha" :> Instruction("pha", <<
       (* 48 *) AsmOpcode(72, "Implied", 1, 3) >>) @@
  "php" :> Instruction("php", <<
       (* 08 *) AsmOpcode(8, "Implied", 1, 3) >>) @@
  "pla" :> Instruction("pla", <<
       (* 68 *) AsmOpcode(104, "Implied", 1, 4) >>) @@
  "plp" :> Instruction("plp", <<
       (* 28 *) AsmOpcode(40, "Implied", 1, 4) >>) @@
  "rol" :> Instruction("rol", <<
       (* 2A *) AsmOpcode(42, "Accumulator", 1, 2),
       (* 26 *) AsmOpcode(38, "ZeroPage", 2, 5),
       (* 36 *) AsmOpcode(54, "ZeroPageX", 2, 6),
       (* 2E *) AsmOpcode(46, "Absolute", 3, 6),
       (* 3E *) AsmOpcode(62, "AbsoluteX", 3, 7) >>) @@
  "ror" :> Instruction("ror", <<
       (* 6A *) AsmOpcode(106, "Accumulator", 1, 2),
       (* 66 *) AsmOpcode(102, "ZeroPage", 2, 5),
       (* 76 *) AsmOpcode(118, "ZeroPageX", 2, 6),
       (* 6E *) AsmOpcode(110, "Absolute", 3, 6),
       (* 7E *) AsmOpcode(126, "AbsoluteX", 3, 7) >>) @@
  "rti" :> Instruction("rti", <<
       (* 40 *) AsmOpcode(64, "Implied", 1, 6) >>) @@
  "rts" :> Instruction("rts", <<
       (* 60 *) AsmOpcode(96, "Implied", 1, 6) >>) @@
  "sbc" :> Instruction("sbc", <<
       (* E9 *) AsmOpcode(233, "Immediate", 2, 2),
       (* E5 *) AsmOpcode(229, "ZeroPage", 2, 3),
       (* F5 *) AsmOpcode(245, "ZeroPageX", 2, 4),
       (* ED *) AsmOpcode(237, "Absolute", 3, 4),
       (* FD *) AsmOpcode(253, "AbsoluteX", 3, 4),
       (* F9 *) AsmOpcode(249, "AbsoluteY", 3, 4),
       (* E1 *) AsmOpcode(225, "IndirectX", 2, 6),
       (* F1 *) AsmOpcode(241, "IndirectY", 2, 5) >>) @@
  "sec" :> Instruction("sec", <<
       (* 38 *) AsmOpcode(56, "Implied", 1, 2) >>) @@
  "sed" :> Instruction("sed", <<
       (* F8 *) AsmOpcode(248, "Implied", 1, 2) >>) @@
  "sei" :> Instruction("sei", <<
       (* 78 *) AsmOpcode(120, "Implied", 1, 2) >>) @@
  "sta" :> Instruction("sta", <<
       (* 85 *) AsmOpcode(133, "ZeroPage", 2, 3),
       (* 95 *) AsmOpcode(149, "ZeroPageX", 2, 4),
       (* 8D *) AsmOpcode(141, "Absolute", 3, 4),
       (* 9D *) AsmOpcode(157, "AbsoluteX", 3, 5),
       (* 99 *) AsmOpcode(153, "AbsoluteY", 3, 5),
       (* 81 *) AsmOpcode(129, "IndirectX", 2, 6),
       (* 91 *) AsmOpcode(145, "IndirectY", 2, 6) >>) @@
  "stx" :> Instruction("stx", <<
       (* 86 *) AsmOpcode(134, "ZeroPage", 2, 3),
       (* 96 *) AsmOpcode(150, "ZeroPageY", 2, 4),
       (* 8E *) AsmOpcode(142, "Absolute", 3, 4) >>) @@
  "sty" :> Instruction("sty", <<
       (* 84 *) AsmOpcode(132, "ZeroPage", 2, 3),
       (* 94 *) AsmOpcode(148, "ZeroPageX", 2, 4),
       (* 8C *) AsmOpcode(140, "Absolute", 3, 4) >>) @@
  "tax" :> Instruction("tax", <<
       (* AA *) AsmOpcode(170, "Implied", 1, 2) >>) @@
  "tay" :> Instruction("tay", <<
       (* A8 *) AsmOpcode(168, "Implied", 1, 2) >>) @@
  "tsx" :> Instruction("tsx", <<
       (* BA *) AsmOpcode(186, "Implied", 1, 2) >>) @@
  "txa" :> Instruction("txa", <<
       (* 8A *) AsmOpcode(138, "Implied", 1, 2) >>) @@
  "txs" :> Instruction("txs", <<
       (* 9A *) AsmOpcode(154, "Implied", 1, 2) >>) @@
  "tya" :> Instruction("tya", <<
       (* 98 *) AsmOpcode(152, "Implied", 1, 2) >>)

\* Instruction::find_by_name: INSTRUCTIONS.get(name)
\* (Some(instr) is << instr >>, None is << >>)
find_by_name(name) ==
  IF name \in DOMAIN INSTRUCTIONS THEN << INSTRUCTIONS[name] >> ELSE << >>

\* the mnemonic of the decode table that spells an assembler name
Uppercase ==
  "adc" :> "ADC" @@
  "and" :> "AND" @@
  "asl" :> "ASL" @@
  "bcc" :> "BCC" @@
  "bcs" :> "BCS" @@
  "beq" :> "BEQ" @@
  "bit" :> "BIT" @@
  "bmi" :> "BMI" @@
  "bne" :> "BNE" @@
  "bpl" :> "BPL" @@
  "brk" :> "BRK" @@
  "bvc" :> "BVC" @@
  "bvs" :> "BVS" @@
  "clc" :> "CLC" @@
  "cld" :> "CLD" @@
  "cli" :> "CLI" @@
  "clv" :> "CLV" @@
  "cmp" :> "CMP" @@
  "cpx" :> "CPX" @@
  "cpy" :> "CPY" @@
  "dec" :> "DEC" @@
  "dex" :> "DEX" @@
  "dey" :> "DEY" @@
  "eor" :> "EOR" @@
  "inc" :> "INC" @@
  "inx" :> "INX" @@
  "iny" :> "INY" @@
  "jmp" :> "JMP" @@
  "jsr" :> "JSR" @@
  "lda" :> "LDA" @@
  "ldx" :> "LDX" @@
  "ldy" :> "LDY" @@
  "lsr" :> "LSR" @@
  "nop" :> "NOP" @@
  "ora" :> "ORA" @@
  "pha" :> "PHA" @@
  "php" :> "PHP" @@
  "pla" :> "PLA" @@
  "plp" :> "PLP" @@
  "rol" :> "ROL" @@
  "ror" :> "ROR" @@
  "rti" :> "RTI" @@
  "rts" :> "RTS" @@
  "sbc" :> "SBC" @@
  "sec" :> "SEC" @@
  "sed" :> "SED" @@
  "sei" :> "SEI" @@
  "sta" :> "STA" @@
  "stx" :> "STX" @@
  "sty" :> "STY" @@
  "tax" :> "TAX" @@
  "tay" :> "TAY" @@
  "tsx" :> "TSX" @@
  "txa" :> "TXA" @@
  "txs" :> "TXS" @@
  "tya" :> "TYA"

\* the names looked up: every key of the table and one identifier that is
\* not an instruction
TableNames == DOMAIN INSTRUCTIONS \cup {"add"}

InitTable ==
  /\ NoAssembly
  /\ acc = 0 /\ x = 0 /\ y = 0 /\ sp = 0 /\ pc = 0 /\ status = 0
  /\ cycle = 0 /\ index = 0 /\ ctx = NewContext /\ pipeline = None
  /\ rom = [entry |-> 4096, b0 |-> 234, b1 |-> 2, b2 |-> 32]
  /\ mem = [a \in {} |-> 0]
  /\ failed = "none"
  /\ bus = << >> /\ peak = 0 /\ trace = << >>
  /\ \E name \in TableNames :
       cur = [name |-> name, instr |-> << >>, at |-> 0, decoded |-> Unmapped]
  /\ delta = 0 /\ last = "new" /\ instrs = 0 /\ resets = 0 /\ resetFrom = None

\* Instruction::find_by_name(name)
FindByName ==
  /\ last = "new"
  /\ cur' = [cur EXCEPT !.instr = find_by_name(cur.name)]
  /\ last' = "find"
  /\ UNCHANGED << acc, x, y, sp, pc, status, cycle, index, ctx, pipeline, rom, mem, bus,
                  peak, trace, failed, delta, instrs, resets, resetFrom >>
  /\ UNCHANGED asmvars

\* the decode table's entry for one opcode value of the instruction found:
\* &OPCODES[opcode as usize]
DecodeRow ==
  /\ last = "find" /\ cur.instr # << >>
  /\ \E i \in 1..Len(cur.instr[1].opcodes) :
       cur' = [cur EXCEPT !.at = i, !.decoded = Opcode(cur.instr[1].opcodes[i].value)]
  /\ last' = "decode"
  /\ UNCHANGED << acc, x, y, sp, pc, status, cycle, index, ctx, pipeline, rom, mem, bus,
                  peak, trace, failed, delta, instrs, resets, resetFrom >>
  /\ UNCHANGED asmvars

NextTable == FindByName \/ DecodeRow

SpecTable == InitTable /\ [][NextTable]_vars

\* the row of the assembler table that was looked up in the decode table
Row == cur.instr[1].opcodes[cur.at]

\* C40: for every opcode value listed for a mnemonic in the assembler's
\* table, the decode table's entry at that value has the same mnemonic, the
\* same addressing mode, the same byte length and the same cycle count.
C40_TablesAgree ==
  last = "decode" =>
    /\ cur.decoded.mnemonic = Uppercase[cur.name]
    /\ cur.decoded.mode = Row.mode
    /\ cur.decoded.bytes = Row.bytes
    /\ cur.decoded.cycles = Row.cycles

====
